---- MODULE Spec2Model ----
(***************************************************************************)
(* Model of make_ntuples (src/src/hipo2root.c, lines 105-759): the event   *)
(* loop of run(), and the detector aggregators get_tof,                    *)
(* get_deposited_energy and count_photoelectrons it calls.                 *)
(*                                                                         *)
(* Banks are sequences of rows; row i of the C code (0-based) is element   *)
(* i+1 of the sequence.  Doubles are modelled by integers with exact       *)
(* arithmetic; angles are in milliradians.                                 *)
(***************************************************************************)
EXTENDS Integers, Sequences, FiniteSets, TLC

VARIABLES
    pc,               \* position inside run(): event | trigger | others | done
    event,            \* loop variable of the event loop
    n_events,         \* number of events the loop runs over
    fmt_cut,          \* option -c
    bpart, btrk, bcal, bchkv, bsci,   \* the banks of the current event
    bfmt,             \* the bank FMT::Tracks
    pos,              \* loop variable of the two track loops
    part_trigger, trigger_exist, trigger_pos, trigger_pindex, trigger_tof,
    trigger_counter, pionp_counter, pionm_counter,
    tree_out,         \* the in-memory TNtuple: one element per Fill(arr)
    file_out,         \* the output file
    rge_errno,
    ret,              \* return value of run(); NotReturned while it runs
    examined,         \* history: track rows visited by the trigger search
    ev_start,         \* history: length of tree_out and counters at ReadEvent
    agg,              \* result of one call of the three aggregators
    proc,             \* main(): options, input file, exit code
    visited,          \* history: the event indices the loop body ran for
    loaded,           \* history: the event each bank was read for last
    rowlog            \* history: the track rows that reached rge_set_pid

vars == <<pc, event, n_events, fmt_cut, bpart, btrk, bcal, bchkv, bsci, bfmt,
          pos,
          part_trigger, trigger_exist, trigger_pos, trigger_pindex,
          trigger_tof, trigger_counter, pionp_counter, pionm_counter,
          tree_out, file_out, rge_errno, ret, examined, ev_start, agg,
          proc, visited, loaded, rowlog>>

----------------------------------------------------------------------------
(* Program constants.                                                      *)

FTOF_ID == 12
HTCC_ID == 15
LTCC_ID == 16
FTOF1A_LYR == 1
FTOF1B_LYR == 2
FTOF2_LYR == 3
PCAL_LYR == 1
ECIN_LYR == 4
ECOU_LYR == 7
\* INFINITY of math.h: larger than every time a row can hold.
INFINITY == 1000000
\* UINT_MAX of limits.h is 4294967295, beyond the integers of TLC; the
\* largest one stands for it: no row index or particle index equals it.
UINT_MAX == 2147483647
NotReturned == 0 - 1

\* FMT geometry cut window for vz = 0, in milliradians:
\* atan(4.2575 / 26.1197) and atan(18.48 / 26.1197).
THETA_MIN_VZ0 == 162
THETA_MAX_VZ0 == 616
\* The window for vz = -10: atan(4.2575 / 36.1197), atan(18.48 / 36.1197).
THETA_MIN_VZM10 == 117
THETA_MAX_VZM10 == 473

\* The sectors of CLAS12, the first dimension of sampling_fraction_params.
RGE_NSECTORS == 6
\* The bytes of the buffer of the output file name (hipo2root.c line 33).
NAME_BUF_SIZE == 22

\* DIS cuts of acc_corr, in tenths: Q2 > 1, W > 2, W2 > 4.
Q2CUT == 10
WCUT == 20
W2CUT == 40

----------------------------------------------------------------------------
(* Bounds of the model.                                                    *)

MaxPart == 2        \* rows of REC::Particle in Spec
MaxTrk == 3         \* rows of REC::Track in Spec
MaxCal == 1         \* rows of REC::Calorimeter in an event
MaxChkv == 1        \* rows of REC::Cherenkov in an event
MaxSci == 1         \* rows of REC::Scintillator in an event
ErrMaxPart == 2     \* rows of REC::Particle in SpecErr
ErrMaxTrk == 2      \* rows of REC::Track in SpecErr
RunMaxEvents == 2   \* events of the input file of SpecRun
RunMaxTrk == 2      \* rows of REC::Track in SpecRun
AggMaxSci == 2      \* rows of REC::Scintillator in calls of get_tof
AggMaxCal == 2      \* rows of REC::Calorimeter in calls of get_tof
AggMaxCalE == 3     \* rows of REC::Calorimeter in calls of get_deposited_energy
AggMaxChkv == 2     \* rows of REC::Cherenkov in calls of count_photoelectrons
\* SpecMain: entries of the input tree, largest value given to -n.
MainMaxEntries == 2
MainMaxReq == 3
\* SpecBank: rows of the bank, events it is populated for.
BankMaxRows == 2
BankMaxFills == 2
\* SpecIo: strings in the list of catch_string, strings the user types.
CatchMaxList == 2
CatchMaxTyped == 2
\* SpecAcc: entries of the tree count_entries is called on.
AccMaxEntries == 2
\* SpecSf: rows of REC::Track.
SfMaxTrk == 2
\* SpecTrig: events of the run.
TrigEvents == 2
\* SpecTof: rows of a bank get_tof is called on.
TofMaxRows == 3
NameSmallRuns == 120   \* the run numbers 0..NameSmallRuns in SpecName
AccRunMaxEntries == 2   \* entries of the thrown tree in SpecAccRun

SeqsUpTo(S, n) == UNION {[1..k -> S] : k \in 0..n}

----------------------------------------------------------------------------
(* Detector aggregators.                                                   *)

\* Variant of the first loop whose FTOF1A branch lacks the test of line
\* 217: every FTOF1A hit replaces the time.
RECURSIVE SciScan_lasthit(_, _, _, _, _)
SciScan_lasthit(sci, pindex, i, lyr, tof) ==
    IF i > Len(sci) THEN [lyr |-> lyr, tof |-> tof]
    ELSE LET r == sci[i] IN
        IF r.pindex # pindex \/ r.detector # FTOF_ID
        THEN SciScan_lasthit(sci, pindex, i + 1, lyr, tof)
        ELSE IF r.layer = FTOF1B_LYR
        THEN [lyr |-> FTOF1B_LYR, tof |-> r.time]
        ELSE IF r.layer = FTOF1A_LYR
        THEN SciScan_lasthit(sci, pindex, i + 1, FTOF1A_LYR, r.time)
        ELSE IF r.layer = FTOF2_LYR
        THEN IF lyr # 0
             THEN SciScan_lasthit(sci, pindex, i + 1, lyr, tof)
             ELSE SciScan_lasthit(sci, pindex, i + 1, FTOF2_LYR, r.time)
        ELSE SciScan_lasthit(sci, pindex, i + 1, lyr, tof)

\* First loop of get_tof: scan of the scintillator bank from row i on.
RECURSIVE SciScan(_, _, _, _, _)
SciScan(sci, pindex, i, lyr, tof) ==
    IF i > Len(sci) THEN [lyr |-> lyr, tof |-> tof]
    ELSE LET r == sci[i] IN
        IF r.pindex # pindex \/ r.detector # FTOF_ID
        THEN SciScan(sci, pindex, i + 1, lyr, tof)
        ELSE IF r.layer = FTOF1B_LYR
        THEN [lyr |-> FTOF1B_LYR, tof |-> r.time]
        ELSE IF r.layer = FTOF1A_LYR
        THEN IF lyr = FTOF1A_LYR
             THEN SciScan(sci, pindex, i + 1, lyr, tof)
             ELSE SciScan(sci, pindex, i + 1, FTOF1A_LYR, r.time)
        ELSE IF r.layer = FTOF2_LYR
        THEN IF lyr # 0
             THEN SciScan(sci, pindex, i + 1, lyr, tof)
             ELSE SciScan(sci, pindex, i + 1, FTOF2_LYR, r.time)
        ELSE SciScan(sci, pindex, i + 1, lyr, tof)

\* Second loop of get_tof: scan of the calorimeter bank from row i on.
RECURSIVE CalScan(_, _, _, _, _)
CalScan(cal, pindex, i, lyr, tof) ==
    IF i > Len(cal) THEN [lyr |-> lyr, tof |-> tof]
    ELSE LET r == cal[i] IN
        IF r.pindex # pindex
        THEN CalScan(cal, pindex, i + 1, lyr, tof)
        ELSE IF r.layer = PCAL_LYR
        THEN [lyr |-> 10 + PCAL_LYR, tof |-> r.time]
        ELSE IF r.layer = ECIN_LYR
        THEN IF lyr = 10 + ECIN_LYR
             THEN CalScan(cal, pindex, i + 1, lyr, tof)
             ELSE CalScan(cal, pindex, i + 1, 10 + ECIN_LYR, r.time)
        ELSE IF r.layer = ECOU_LYR
        THEN IF lyr # 0
             THEN CalScan(cal, pindex, i + 1, lyr, tof)
             ELSE CalScan(cal, pindex, i + 1, 10 + ECOU_LYR, r.time)
        ELSE CalScan(cal, pindex, i + 1, lyr, tof)

\* Variants of get_tof: the time of the first FTOF row of the particle
\* whatever its layer, and 0 in place of the initial value of tof.
get_tof_first(scintillator, calorimeter, pindex) ==
    LET hits == {i \in DOMAIN scintillator :
                    /\ scintillator[i].pindex = pindex
                    /\ scintillator[i].detector = FTOF_ID}
    IN IF hits # {}
       THEN scintillator[CHOOSE i \in hits : \A j \in hits : i <= j].time
       ELSE CalScan(calorimeter, pindex, 1, 0, INFINITY).tof
get_tof_zero(scintillator, calorimeter, pindex) ==
    LET s == SciScan(scintillator, pindex, 1, 0, 0) IN
    IF s.lyr # 0 THEN s.tof
    ELSE CalScan(calorimeter, pindex, 1, 0, 0).tof
\* get_tof (lines 189-263): the scintillator scan, then the calorimeter scan.
get_tof(scintillator, calorimeter, pindex) ==
    LET s == SciScan(scintillator, pindex, 1, 0, INFINITY) IN
    IF s.lyr # 0 THEN s.tof
    ELSE CalScan(calorimeter, pindex, 1, 0, INFINITY).tof

\* Variants of the loop: without the pindex filter, and with rows of an
\* unknown layer passed over.
RECURSIVE EnergyScan_allrows(_, _, _, _)
EnergyScan_allrows(cal, pindex, i, acc) ==
    IF i > Len(cal) THEN acc
    ELSE LET r == cal[i] IN
        IF r.layer = PCAL_LYR
        THEN EnergyScan_allrows(cal, pindex, i + 1,
                                [acc EXCEPT !.PCAL = @ + r.energy])
        ELSE IF r.layer = ECIN_LYR
        THEN EnergyScan_allrows(cal, pindex, i + 1,
                                [acc EXCEPT !.ECIN = @ + r.energy])
        ELSE IF r.layer = ECOU_LYR
        THEN EnergyScan_allrows(cal, pindex, i + 1,
                                [acc EXCEPT !.ECOU = @ + r.energy])
        ELSE IF r.pindex = pindex THEN [acc EXCEPT !.err = 1]
        ELSE EnergyScan_allrows(cal, pindex, i + 1, acc)
RECURSIVE EnergyScan_lenient(_, _, _, _)
EnergyScan_lenient(cal, pindex, i, acc) ==
    IF i > Len(cal) THEN acc
    ELSE LET r == cal[i] IN
        IF r.pindex # pindex THEN EnergyScan_lenient(cal, pindex, i + 1, acc)
        ELSE IF r.layer = PCAL_LYR
        THEN EnergyScan_lenient(cal, pindex, i + 1,
                                [acc EXCEPT !.PCAL = @ + r.energy])
        ELSE IF r.layer = ECIN_LYR
        THEN EnergyScan_lenient(cal, pindex, i + 1,
                                [acc EXCEPT !.ECIN = @ + r.energy])
        ELSE IF r.layer = ECOU_LYR
        THEN EnergyScan_lenient(cal, pindex, i + 1,
                                [acc EXCEPT !.ECOU = @ + r.energy])
        ELSE EnergyScan_lenient(cal, pindex, i + 1, acc)
\* Variant of the loop that looks at the layer before the pindex: a row of
\* an unknown layer fails whatever particle it belongs to.
RECURSIVE EnergyScan_anyrow(_, _, _, _)
EnergyScan_anyrow(cal, pindex, i, acc) ==
    IF i > Len(cal) THEN acc
    ELSE LET r == cal[i] IN
        IF r.layer \notin {PCAL_LYR, ECIN_LYR, ECOU_LYR}
        THEN [acc EXCEPT !.err = 1]
        ELSE IF r.pindex # pindex
        THEN EnergyScan_anyrow(cal, pindex, i + 1, acc)
        ELSE IF r.layer = PCAL_LYR
        THEN EnergyScan_anyrow(cal, pindex, i + 1,
                               [acc EXCEPT !.PCAL = @ + r.energy])
        ELSE IF r.layer = ECIN_LYR
        THEN EnergyScan_anyrow(cal, pindex, i + 1,
                               [acc EXCEPT !.ECIN = @ + r.energy])
        ELSE EnergyScan_anyrow(cal, pindex, i + 1,
                               [acc EXCEPT !.ECOU = @ + r.energy])
\* Loop of get_deposited_energy from row i on; err = 1 is the early return.
RECURSIVE EnergyScan(_, _, _, _)
EnergyScan(cal, pindex, i, acc) ==
    IF i > Len(cal) THEN acc
    ELSE LET r == cal[i] IN
        IF r.pindex # pindex THEN EnergyScan(cal, pindex, i + 1, acc)
        ELSE IF r.layer = PCAL_LYR
        THEN EnergyScan(cal, pindex, i + 1, [acc EXCEPT !.PCAL = @ + r.energy])
        ELSE IF r.layer = ECIN_LYR
        THEN EnergyScan(cal, pindex, i + 1, [acc EXCEPT !.ECIN = @ + r.energy])
        ELSE IF r.layer = ECOU_LYR
        THEN EnergyScan(cal, pindex, i + 1, [acc EXCEPT !.ECOU = @ + r.energy])
        ELSE [acc EXCEPT !.err = 1]

get_deposited_energy(calorimeter, pindex) ==
    EnergyScan(calorimeter, pindex, 1,
               [err |-> 0, PCAL |-> 0, ECIN |-> 0, ECOU |-> 0])

\* Variant of the loop with rows of an unknown detector passed over.
RECURSIVE NpheScan_lenient(_, _, _, _)
NpheScan_lenient(chkv, pindex, i, acc) ==
    IF i > Len(chkv) THEN acc
    ELSE LET r == chkv[i] IN
        IF r.pindex # pindex THEN NpheScan_lenient(chkv, pindex, i + 1, acc)
        ELSE IF r.detector = HTCC_ID
        THEN NpheScan_lenient(chkv, pindex, i + 1,
                              [acc EXCEPT !.HTCC = @ + r.nphe])
        ELSE IF r.detector = LTCC_ID
        THEN NpheScan_lenient(chkv, pindex, i + 1,
                              [acc EXCEPT !.LTCC = @ + r.nphe])
        ELSE NpheScan_lenient(chkv, pindex, i + 1, acc)
\* Loop of count_photoelectrons from row i on; err = 1 is the early return.
RECURSIVE NpheScan(_, _, _, _)
NpheScan(chkv, pindex, i, acc) ==
    IF i > Len(chkv) THEN acc
    ELSE LET r == chkv[i] IN
        IF r.pindex # pindex THEN NpheScan(chkv, pindex, i + 1, acc)
        ELSE IF r.detector = HTCC_ID
        THEN NpheScan(chkv, pindex, i + 1, [acc EXCEPT !.HTCC = @ + r.nphe])
        ELSE IF r.detector = LTCC_ID
        THEN NpheScan(chkv, pindex, i + 1, [acc EXCEPT !.LTCC = @ + r.nphe])
        ELSE [acc EXCEPT !.err = 1]

count_photoelectrons(cherenkov, pindex) ==
    NpheScan(cherenkov, pindex, 1, [err |-> 0, HTCC |-> 0, LTCC |-> 0])

----------------------------------------------------------------------------
(* Particles.  A particle is the struct rge_particle; row is a history     *)
(* field, the track row the particle was built from.                       *)

\* Window of the FMT geometry cut for a vertex z, in milliradians: the
\* values of the arctangents at the vertex positions 0 and -10 of the inputs.
theta_min(vz) == IF vz = 0 THEN THETA_MIN_VZ0 ELSE THETA_MIN_VZM10
theta_max(vz) == IF vz = 0 THEN THETA_MAX_VZ0 ELSE THETA_MAX_VZM10

\* The cut that lets every particle pass.
apply_fmtgeomtry_cut_pass(p) == 0
\* The cut with the bounds of the window outside of it.
apply_fmtgeomtry_cut_open(p) ==
    IF theta_min(p.vz) >= p.theta \/ p.theta >= theta_max(p.vz) THEN 1 ELSE 0

\* theta is atan2(sqrt(px^2 + py^2), pz) of the particle, in milliradians.
\* rge_to_rad never fails on 57.29 * atan(x), so result 2 does not occur.
apply_fmtgeomtry_cut(p) ==
    IF theta_min(p.vz) > p.theta \/ p.theta > theta_max(p.vz) THEN 1 ELSE 0

\* The candidate of track row p: invalid when no Particle row matches the
\* particle index of the track, else kinematics copied from that row.
rge_particle_init(particle, track, p) ==
    LET pindex == track[p + 1].pindex IN
    IF pindex >= Len(particle)
    THEN [is_valid |-> FALSE, is_trigger |-> FALSE, pid |-> 0,
          vz |-> 0, theta |-> 0, row |-> p]
    ELSE [is_valid |-> TRUE, is_trigger |-> FALSE, pid |-> 0,
          vz |-> particle[pindex + 1].vz,
          theta |-> particle[pindex + 1].theta, row |-> p]

\* The fixed hypothesis table of the classifier.
PID_MAP == {11, 211, 0 - 211}

\* The sampling fraction table after rge_get_sf_params: six rows, row i
\* (counted from 0) holds the calibration of sector i + 1; accepts says
\* whether the energy of an electron candidate falls inside its band.
sampling_fraction_params ==
    [i \in 0..(RGE_NSECTORS - 1) |-> [sector |-> i + 1, accepts |-> TRUE]]

\* Lines 535 and 610: the row of the table handed to rge_set_pid for a
\* track of sector sector.
SfIndex(sector) == sector

\* sampling_fraction_params[SfIndex(sector)]: the row, or whatever the
\* memory behind the table holds.
SfRead(sector) ==
    IF SfIndex(sector) \in DOMAIN sampling_fraction_params
    THEN {sampling_fraction_params[SfIndex(sector)]}
    ELSE {[sector |-> 0, accepts |-> a] : a \in BOOLEAN}

\* Classification: electron hypothesis first, then the hypothesis table,
\* else failure.  A pure function of its arguments.
rge_set_pid(p, recon_pid, tot_energy, sf) ==
    IF recon_pid = 11 /\ tot_energy > 0 /\ sf.accepts
    THEN [err |-> 0, p |-> [p EXCEPT !.pid = 11, !.is_trigger = TRUE]]
    ELSE IF recon_pid \in PID_MAP
    THEN [err |-> 0, p |-> [p EXCEPT !.pid = recon_pid]]
    ELSE [err |-> 1, p |-> p]

\* The two particles handed over in the wrong order.
FillArgs_swapped(p, e, ev, en, tof, ttof, ph) ==
    [p |-> e, e |-> p, event |-> ev,
     energy_PCAL |-> en.PCAL, energy_ECIN |-> en.ECIN,
     energy_ECOU |-> en.ECOU, tof |-> tof, trigger_tof |-> ttof,
     nphe_LTCC |-> ph.LTCC, nphe_HTCC |-> ph.HTCC]

\* The arguments handed to rge_fill_ntuples_arr, kept as the record that
\* tree_out->Fill(arr) appends.
FillArgs(p, e, ev, en, tof, ttof, ph) ==
    [p |-> p, e |-> e, event |-> ev,
     energy_PCAL |-> en.PCAL, energy_ECIN |-> en.ECIN,
     energy_ECOU |-> en.ECOU, tof |-> tof, trigger_tof |-> ttof,
     nphe_LTCC |-> ph.LTCC, nphe_HTCC |-> ph.HTCC]

NoParticle ==
    [is_valid |-> FALSE, is_trigger |-> FALSE, pid |-> 0, vz |-> 0,
     theta |-> 0, row |-> UINT_MAX]

----------------------------------------------------------------------------
(* run(): the event loop.                                                  *)

\* The banks by name, and the event they were read for: none yet.
BankNames == {"bpart", "btrk", "bcal", "bchkv", "bsci", "bfmt"}
NotLoaded == [b \in BankNames |-> 0 - 1]

\* The parameter fmt_nlayers of run(): 0 when run() is entered directly.
fmt_nlayers == IF proc = [argv |-> "none"] THEN 0 ELSE proc.fmt_nlayers

\* Line 481: rge_get_entries is called on bfmt.
ReadsFmt_always(nlayers) == TRUE
ReadsFmt(nlayers) == nlayers # 0
\* The rows of FMT::Tracks of an event.
FmtBanks == {<<[pindex |-> 0, ndf |-> 3]>>}

counters == <<trigger_counter, pionp_counter, pionm_counter>>
banks == <<bpart, btrk, bcal, bchkv, bsci, bfmt>>
trigger_state == <<trigger_exist, trigger_pos, trigger_pindex, trigger_tof>>

\* Line 484: events without the necessary banks are filtered out.
EmptyBanks(particle, track) == Len(particle) = 0 \/ Len(track) = 0

\* Lines 476-491: read the banks of the event, filter, declare the locals.
ReadEvent(PartBanks, TrkBanks, CalBanks, ChkvBanks, SciBanks) ==
    /\ pc = "event"
    /\ event < n_events
    /\ \E part \in PartBanks, trk \in TrkBanks, cal \in CalBanks,
          chkv \in ChkvBanks, sci \in SciBanks, fmt \in FmtBanks :
        /\ bpart' = part
        /\ btrk' = trk
        /\ bcal' = cal
        /\ bchkv' = chkv
        /\ bsci' = sci
        /\ bfmt' = IF ReadsFmt(fmt_nlayers) THEN fmt ELSE bfmt
        /\ IF EmptyBanks(part, trk)
           THEN /\ event' = event + 1
                /\ pc' = "event"
           ELSE /\ event' = event
                /\ pc' = "trigger"
    /\ pos' = 0
    /\ part_trigger' = NoParticle
    /\ trigger_exist' = FALSE
    /\ trigger_pos' = UINT_MAX
    /\ trigger_pindex' = UINT_MAX
    /\ trigger_tof' = 0 - 1
    /\ examined' = <<>>
    /\ ev_start' = [n |-> Len(tree_out), trigger |-> trigger_counter,
                    pionp |-> pionp_counter, pionm |-> pionm_counter]
    /\ visited' = Append(visited, event)
    /\ loaded' = [b \in BankNames |->
                      IF b = "bfmt" /\ ~ReadsFmt(fmt_nlayers)
                      THEN loaded[b] ELSE event]
    /\ rowlog' = <<>>
    /\ UNCHANGED <<n_events, fmt_cut, counters, tree_out, file_out,
                   rge_errno, ret, agg, proc>>

\* Variant of the early return that writes the tree to the output file.
Abort_flush(e) ==
    /\ pc' = "done"
    /\ ret' = 1
    /\ rge_errno' = e
    /\ file_out' = [exists |-> TRUE, rows |-> tree_out]
    /\ UNCHANGED <<event, n_events, fmt_cut, banks, pos, trigger_state,
                   counters, tree_out, ev_start, agg,
                   proc, visited, loaded>>

\* return 1 from inside the event loop, rge_errno set by the failing callee.
Abort(e) ==
    /\ pc' = "done"
    /\ ret' = 1
    /\ rge_errno' = e
    /\ UNCHANGED <<event, n_events, fmt_cut, banks, pos, trigger_state,
                   counters, tree_out, file_out, ev_start, agg,
                   proc, visited, loaded>>

\* The search without its break: it stops at the end of the bank only.
TriggerLoopExit_nobreak(found, p) == p + 1 >= Len(btrk)
\* Whether the trigger search ends after the iteration for row p: the break
\* of line 555, or the loop condition of line 492.
TriggerLoopExit(found, p) == found \/ p + 1 >= Len(btrk)

\* Lines 501 and 576: a candidate that does not fit the requirements is
\* passed over.
SkipInvalid_never(p) == FALSE
SkipInvalid(p) == ~p.is_valid

\* rge_get_double(&bpart, .., pindex), lines 528-533 and 603-608: the row
\* of the Particle bank, or what lies behind the bank for a pindex past
\* its last row.
PartRead(particle, pindex) ==
    IF pindex < Len(particle) THEN particle[pindex + 1]
    ELSE [pid |-> 0, vz |-> 0, theta |-> 0]

\* The iteration gets as far as lines 528-535 (603-610): the candidate is
\* kept and the two aggregators returned 0.
ReachesSetPid(p, cut, en, ph) ==
    ~SkipInvalid(p) /\ cut = 0 /\ en.err = 0 /\ ph.err = 0
\* What is read there for track row p: the Particle row pindex of a bank
\* of nrows rows, and the row sf_row of sampling_fraction_params.
RowLogEntry(loop, p) ==
    [loop |-> loop, pos |-> p, pindex |-> btrk[p + 1].pindex,
     nrows |-> Len(bpart), sector |-> btrk[p + 1].sector,
     sf_row |-> SfIndex(btrk[p + 1].sector)]

\* Lines 493-556: one iteration of the trigger search.
TriggerStep ==
    /\ pc = "trigger"
    /\ pos < Len(btrk)
    /\ \E sf \in SfRead(btrk[pos + 1].sector) :
       LET pindex == btrk[pos + 1].pindex
           cand == rge_particle_init(bpart, btrk, pos)
           cut == IF fmt_cut THEN apply_fmtgeomtry_cut(cand) ELSE 0
           en == get_deposited_energy(bcal, pindex)
           ph == count_photoelectrons(bchkv, pindex)
           tof == get_tof(bsci, bcal, pindex)
           cls == rge_set_pid(cand, PartRead(bpart, pindex).pid,
                              en.PCAL + en.ECIN + en.ECOU, sf)
           Continue(p) ==
               /\ part_trigger' = p
               /\ pos' = pos + 1
               /\ pc' = IF TriggerLoopExit(FALSE, pos) THEN "check"
                        ELSE "trigger"
               /\ UNCHANGED <<event, n_events, fmt_cut, banks, trigger_state,
                              counters, tree_out, file_out, rge_errno, ret,
                              ev_start, agg,
                              proc, visited, loaded>>
       IN
        /\ examined' = Append(examined, pos)
        /\ rowlog' = IF ReachesSetPid(cand, cut, en, ph)
                      THEN Append(rowlog, RowLogEntry("trigger", pos))
                      ELSE rowlog
        /\ IF SkipInvalid(cand) \/ cut = 1 THEN Continue(cand)
           ELSE IF cut = 2
           THEN part_trigger' = cand /\ Abort("RGEERR_ANGLEOUTOFRANGE")
           ELSE IF en.err = 1
           THEN part_trigger' = cand /\ Abort("RGEERR_INVALIDCALLAYER")
           ELSE IF ph.err = 1
           THEN part_trigger' = cand /\ Abort("RGEERR_INVALIDCHERENKOVID")
           ELSE IF cls.err = 1
           THEN part_trigger' = cand /\ Abort("RGEERR_UNSUPPORTEDPID")
           ELSE IF ~cls.p.is_trigger THEN Continue(cls.p)
           ELSE /\ part_trigger' = cls.p
                /\ tree_out' = Append(tree_out,
                       FillArgs(cls.p, cls.p, event, en, tof, tof, ph))
                /\ trigger_exist' = TRUE
                /\ trigger_pindex' = pindex
                /\ trigger_pos' = pos
                /\ trigger_tof' = tof
                /\ pos' = IF TriggerLoopExit(TRUE, pos) THEN pos ELSE pos + 1
                /\ pc' = IF TriggerLoopExit(TRUE, pos) THEN "check"
                         ELSE "trigger"
                /\ UNCHANGED <<event, n_events, fmt_cut, banks, counters,
                               file_out, rge_errno, ret, ev_start, agg,
                               proc, visited, loaded>>

\* The event is carried on without a trigger.
SkipEvent_never == FALSE
\* Line 559: events without a trigger electron are skipped.
SkipEvent == ~trigger_exist

\* Lines 558-562: after the trigger search.
CheckTrigger ==
    /\ pc = "check"
    /\ IF SkipEvent
       THEN /\ event' = event + 1
            /\ pc' = "event"
            /\ UNCHANGED <<trigger_counter, pos>>
       ELSE /\ trigger_counter' = trigger_counter + 1
            /\ pos' = 0
            /\ pc' = "others"
            /\ event' = event
    /\ UNCHANGED <<n_events, fmt_cut, banks, part_trigger, trigger_state,
                   pionp_counter, pionm_counter, tree_out, file_out,
                   rge_errno, ret, examined, ev_start, agg,
                   proc, visited, loaded, rowlog>>

\* The second loop skipping nothing, and skipping on the pindex alone.
IsTriggerRow_never(pindex, p) == FALSE
IsTriggerRow_pindex(pindex, p) == trigger_pindex = pindex
\* Line 567: the row of the trigger electron is not counted twice.
IsTriggerRow(pindex, p) == trigger_pindex = pindex /\ trigger_pos = p

\* The test of a pion counter without the sign of the PID.
CountPid_unsigned(pid, hyp) ==
    IF pid = hyp \/ pid = 0 - hyp THEN 1 ELSE 0
\* Lines 625-626: what a record of PID pid adds to the counter of hyp.
CountPid(pid, hyp) == IF pid = hyp THEN 1 ELSE 0

\* Lines 564-626: one iteration of the loop over the other particles.
OtherStep ==
    /\ pc = "others"
    /\ pos < Len(btrk)
    /\ \E sf \in SfRead(btrk[pos + 1].sector) :
       LET pindex == btrk[pos + 1].pindex
           part == rge_particle_init(bpart, btrk, pos)
           cut == IF fmt_cut THEN apply_fmtgeomtry_cut(part) ELSE 0
           en == get_deposited_energy(bcal, pindex)
           ph == count_photoelectrons(bchkv, pindex)
           tof == get_tof(bsci, bcal, pindex)
           cls == rge_set_pid(part, PartRead(bpart, pindex).pid,
                              en.PCAL + en.ECIN + en.ECOU, sf)
           Advance ==
               /\ pos' = pos + 1
               /\ IF pos + 1 < Len(btrk)
                  THEN pc' = "others" /\ event' = event
                  ELSE pc' = "event" /\ event' = event + 1
               /\ UNCHANGED <<n_events, fmt_cut, banks, part_trigger,
                              trigger_state, trigger_counter, file_out,
                              rge_errno, ret, examined, ev_start, agg,
                              proc, visited, loaded>>
       IN
        /\ rowlog' = IF ~IsTriggerRow(pindex, pos)
                         /\ ReachesSetPid(part, cut, en, ph)
                      THEN Append(rowlog, RowLogEntry("others", pos))
                      ELSE rowlog
        /\ IF IsTriggerRow(pindex, pos) \/ SkipInvalid(part) \/ cut = 1
           THEN Advance /\ UNCHANGED <<tree_out, pionp_counter, pionm_counter>>
           ELSE IF cut = 2
           THEN UNCHANGED <<part_trigger, examined>>
                /\ Abort("RGEERR_ANGLEOUTOFRANGE")
           ELSE IF en.err = 1
           THEN UNCHANGED <<part_trigger, examined>>
                /\ Abort("RGEERR_INVALIDCALLAYER")
           ELSE IF ph.err = 1
           THEN UNCHANGED <<part_trigger, examined>>
                /\ Abort("RGEERR_INVALIDCHERENKOVID")
           ELSE IF cls.err = 1
           THEN UNCHANGED <<part_trigger, examined>>
                /\ Abort("RGEERR_UNSUPPORTEDPID")
           ELSE /\ tree_out' = Append(tree_out,
                       FillArgs(cls.p, part_trigger, event, en, tof,
                                trigger_tof, ph))
                /\ pionp_counter' = pionp_counter + CountPid(cls.p.pid, 211)
                /\ pionm_counter' = pionm_counter
                                       + CountPid(cls.p.pid, 0 - 211)
                /\ Advance

\* Lines 629-656: the output file is created and written, run() returns 0.
Finish ==
    /\ pc = "event"
    /\ event >= n_events
    /\ file_out' = [exists |-> TRUE, rows |-> tree_out]
    /\ rge_errno' = "RGEERR_NOERR"
    /\ ret' = 0
    /\ pc' = "done"
    /\ UNCHANGED <<event, n_events, fmt_cut, banks, pos, part_trigger,
                   trigger_state, counters, tree_out, examined, ev_start,
                   agg, proc, visited, loaded, rowlog>>

----------------------------------------------------------------------------
(* Inputs.                                                                 *)

\* The particle indices the rows of the detector and track banks carry.
PindexDom == {0, 1}

\* Particle rows: an electron, pions and a PID outside the hypothesis
\* table inside the FMT window (theta 300), and an electron below it.
Electron == [pid |-> 11, vz |-> 0, theta |-> 300]
ElectronLow == [pid |-> 11, vz |-> 0, theta |-> 100]
PionPlus == [pid |-> 211, vz |-> 0, theta |-> 300]
PionMinus == [pid |-> 0 - 211, vz |-> 0, theta |-> 300]
Unsupported == [pid |-> 999, vz |-> 0, theta |-> 300]
PartRows == {Electron, ElectronLow, PionPlus, Unsupported}
TrkRows == [pindex : PindexDom, sector : {1}]
\* Layer 9 is no calorimeter layer, detector 99 no Cherenkov counter.
CalRows == [pindex : PindexDom, layer : {PCAL_LYR, 9}, energy : {1},
            time : {20}]
GoodCalRows == {r \in CalRows : r.layer = PCAL_LYR}
ChkvRows == [pindex : PindexDom, detector : {HTCC_ID, 99}, nphe : {1}]
SciRows == [pindex : PindexDom, detector : {FTOF_ID}, layer : {FTOF1B_LYR},
            time : {10}]

\* main() is not part of the state: run() or an aggregator is entered
\* directly.
NoProc == [argv |-> "none"]

NoAgg == [fn |-> "none", pindex |-> 0, tof |-> 0,
          en |-> get_deposited_energy(<<>>, 0),
          ph |-> count_photoelectrons(<<>>, 0)]

\* The locals of run() at the head of the event loop (lines 465-471), the
\* output and the history.
InitIdle ==
    /\ event = 0
    /\ bpart = <<>> /\ btrk = <<>> /\ bcal = <<>> /\ bchkv = <<>>
    /\ bsci = <<>>
    /\ bfmt = <<>>
    /\ pos = 0
    /\ part_trigger = NoParticle
    /\ trigger_exist = FALSE
    /\ trigger_pos = UINT_MAX
    /\ trigger_pindex = UINT_MAX
    /\ trigger_tof = 0 - 1
    /\ trigger_counter = 0 /\ pionp_counter = 0 /\ pionm_counter = 0
    /\ tree_out = <<>>
    /\ file_out = [exists |-> FALSE, rows |-> <<>>]
    /\ ret = NotReturned
    /\ examined = <<>>
    /\ ev_start = [n |-> 0, trigger |-> 0, pionp |-> 0, pionm |-> 0]
    /\ visited = <<>>
    /\ loaded = NotLoaded
    /\ rowlog = <<>>

\* rge_errno is RGEERR_UNDEFINED when main calls run() (line 745).
InitLocals ==
    /\ InitIdle
    /\ rge_errno = "RGEERR_UNDEFINED"
    /\ agg = NoAgg

\* The state run() starts the event loop in.
InitLoop ==
    /\ pc = "event"
    /\ proc = NoProc
    /\ InitLocals

----------------------------------------------------------------------------
(* Direct calls of the three aggregators on banks of several rows.  The    *)
(* values a row carries tell the rows apart: the time of a row is its      *)
(* position in the bank (plus 10 in the calorimeter), its energy or nphe   *)
(* is 2^(position - 1), so that a sum tells which rows were added.         *)

\* Scintillator rows: FTOF hits of every layer, and one hit of another
\* detector of the bank (CTOF, id 4) for particle 0.
AggSciRows ==
    [pindex : PindexDom, detector : {FTOF_ID},
     layer : {FTOF1A_LYR, FTOF1B_LYR, FTOF2_LYR}]
    \cup [pindex : {0}, detector : {4}, layer : {FTOF1B_LYR}]
AggCalRows == [pindex : PindexDom, layer : {PCAL_LYR, ECIN_LYR, ECOU_LYR, 9}]
AggTofCalRows == {r \in AggCalRows : r.layer # 9}
AggChkvRows == [pindex : PindexDom, detector : {HTCC_ID, LTCC_ID, 99}]

SciBank(rows) ==
    [i \in DOMAIN rows |->
        [pindex |-> rows[i].pindex, detector |-> rows[i].detector,
         layer |-> rows[i].layer, time |-> i]]
CalBank(rows) ==
    [i \in DOMAIN rows |->
        [pindex |-> rows[i].pindex, layer |-> rows[i].layer,
         energy |-> 2 ^ (i - 1), time |-> 10 + i]]
ChkvBank(rows) ==
    [i \in DOMAIN rows |->
        [pindex |-> rows[i].pindex, detector |-> rows[i].detector,
         nphe |-> 2 ^ (i - 1)]]

\* The state at a call: the banks hold the rows, nothing else has run.
InitCall(SciBanks, CalBanks, ChkvBanks) ==
    /\ pc = "agg"
    /\ event = 0
    /\ n_events = 0
    /\ fmt_cut = FALSE
    /\ bpart = <<>> /\ btrk = <<>> /\ bfmt = <<>>
    /\ bsci \in SciBanks
    /\ bcal \in CalBanks
    /\ bchkv \in ChkvBanks
    /\ pos = 0
    /\ part_trigger = NoParticle
    /\ trigger_exist = FALSE
    /\ trigger_pos = UINT_MAX
    /\ trigger_pindex = UINT_MAX
    /\ trigger_tof = 0 - 1
    /\ trigger_counter = 0 /\ pionp_counter = 0 /\ pionm_counter = 0
    /\ tree_out = <<>>
    /\ file_out = [exists |-> FALSE, rows |-> <<>>]
    /\ rge_errno = "RGEERR_UNDEFINED"
    /\ ret = NotReturned
    /\ examined = <<>>
    /\ ev_start = [n |-> 0, trigger |-> 0, pionp |-> 0, pionm |-> 0]
    /\ agg = NoAgg
    /\ proc = NoProc
    /\ visited = <<>>
    /\ loaded = NotLoaded
    /\ rowlog = <<>>

InitAggTof ==
    InitCall({SciBank(r) : r \in SeqsUpTo(AggSciRows, AggMaxSci)},
             {CalBank(r) : r \in SeqsUpTo(AggTofCalRows, AggMaxCal)},
             {<<>>})
InitAggEnergy ==
    InitCall({<<>>}, {CalBank(r) : r \in SeqsUpTo(AggCalRows, AggMaxCalE)},
             {<<>>})
InitAggNphe ==
    InitCall({<<>>}, {<<>>},
             {ChkvBank(r) : r \in SeqsUpTo(AggChkvRows, AggMaxChkv)})

AggFrame ==
    UNCHANGED <<event, n_events, fmt_cut, banks, pos, part_trigger,
                trigger_state, counters, tree_out, file_out, ret, examined,
                ev_start, proc, visited, loaded, rowlog>>

\* get_tof(&bsci, &bcal, pindex): no assignment to rge_errno.
CallTof ==
    /\ pc = "agg"
    /\ \E pindex \in PindexDom :
        agg' = [NoAgg EXCEPT !.fn = "get_tof", !.pindex = pindex,
                             !.tof = get_tof(bsci, bcal, pindex)]
    /\ pc' = "agg_done"
    /\ UNCHANGED rge_errno
    /\ AggFrame

\* get_deposited_energy(&bcal, pindex, ...): lines 296-297 on a bad layer.
CallEnergy ==
    /\ pc = "agg"
    /\ \E pindex \in PindexDom :
        LET en == get_deposited_energy(bcal, pindex) IN
        /\ agg' = [NoAgg EXCEPT !.fn = "get_deposited_energy",
                                !.pindex = pindex, !.en = en]
        /\ rge_errno' = IF en.err = 1 THEN "RGEERR_INVALIDCALLAYER"
                        ELSE rge_errno
    /\ pc' = "agg_done"
    /\ AggFrame

\* count_photoelectrons(&bchkv, pindex, ...): lines 332-333 on a bad id.
CallNphe ==
    /\ pc = "agg"
    /\ \E pindex \in PindexDom :
        LET ph == count_photoelectrons(bchkv, pindex) IN
        /\ agg' = [NoAgg EXCEPT !.fn = "count_photoelectrons",
                                !.pindex = pindex, !.ph = ph]
        /\ rge_errno' = IF ph.err = 1 THEN "RGEERR_INVALIDCHERENKOVID"
                        ELSE rge_errno
    /\ pc' = "agg_done"
    /\ AggFrame

----------------------------------------------------------------------------
(* Spec: run() on one event, with or without the FMT geometry cut, the     *)
(* detector rows being valid ones; and the direct calls of get_tof.        *)

InitWide ==
    /\ InitLoop
    /\ n_events = 1
    /\ fmt_cut \in BOOLEAN

Init == InitWide \/ InitAggTof

ReadEventWide ==
    ReadEvent(SeqsUpTo(PartRows, MaxPart), SeqsUpTo(TrkRows, MaxTrk),
              SeqsUpTo(GoodCalRows, MaxCal), {<<>>},
              SeqsUpTo(SciRows, MaxSci))

Next ==
    \/ ReadEventWide
    \/ TriggerStep
    \/ CheckTrigger
    \/ OtherStep
    \/ Finish
    \/ CallTof

Spec == Init /\ [][Next]_vars

----------------------------------------------------------------------------
(* SpecErr: run() on one event whose calorimeter and Cherenkov rows may    *)
(* carry an unknown layer or detector; and the direct calls of             *)
(* get_deposited_energy and count_photoelectrons.                          *)

ErrPartRows == {Electron, PionPlus}

InitErrRun ==
    /\ InitLoop
    /\ n_events = 1
    /\ fmt_cut = FALSE

InitErr == InitErrRun \/ InitAggEnergy \/ InitAggNphe

ReadEventErr ==
    ReadEvent(SeqsUpTo(ErrPartRows, ErrMaxPart), SeqsUpTo(TrkRows, ErrMaxTrk),
              SeqsUpTo(CalRows, MaxCal), SeqsUpTo(ChkvRows, MaxChkv),
              {<<>>})

NextErr ==
    \/ ReadEventErr
    \/ TriggerStep
    \/ CheckTrigger
    \/ OtherStep
    \/ Finish
    \/ CallEnergy
    \/ CallNphe

SpecErr == InitErr /\ [][NextErr]_vars

----------------------------------------------------------------------------
(* SpecRun: run() on several events.  The Particle bank of an event is     *)
(* empty or holds an electron and a second particle; the calorimeter bank  *)
(* is empty, holds a PCAL row of the first particle, or that row and a row *)
(* of an unknown layer of the second; the Cherenkov bank is empty or holds *)
(* a row of an unknown detector of the second particle.                    *)

RunPartBanks ==
    {<<>>, <<Electron, PionPlus>>, <<Electron, PionMinus>>,
     <<Electron, Unsupported>>}
RunCalBanks ==
    {<<>>,
     <<[pindex |-> 0, layer |-> PCAL_LYR, energy |-> 1, time |-> 20]>>,
     <<[pindex |-> 0, layer |-> PCAL_LYR, energy |-> 1, time |-> 20],
       [pindex |-> 1, layer |-> 9, energy |-> 1, time |-> 20]>>}
RunChkvBanks ==
    {<<>>, <<[pindex |-> 1, detector |-> 99, nphe |-> 1]>>}

InitRun ==
    /\ InitLoop
    /\ n_events \in 0..RunMaxEvents
    /\ fmt_cut = FALSE

ReadEventRun ==
    ReadEvent(RunPartBanks, SeqsUpTo(TrkRows, RunMaxTrk), RunCalBanks,
              RunChkvBanks, {<<>>})

NextRun ==
    \/ ReadEventRun
    \/ TriggerStep
    \/ CheckTrigger
    \/ OtherStep
    \/ Finish

SpecRun == InitRun /\ [][NextRun]_vars

----------------------------------------------------------------------------
(* SpecMain: the whole program.  main() parses the options, calls run()    *)
(* unless that failed, and exits with the code of rge_print_usage.  The    *)
(* input file is absent, has no tree, or has a tree of some entries, with  *)
(* or without an FMT::Tracks bank; an event holds an electron and a pion   *)
(* with no track row, one of the electron, or one of the electron between  *)
(* two of the pion.  rge_print_usage is also called directly on every      *)
(* error number.                                                           *)

\* The keys of ERRMAP (rge_err_handler.c lines 27-152).
ERRMAP ==
    {"RGEERR_NOERR", "RGEERR_USAGE", "RGEERR_UNDEFINED", "RGEERR_BADOPTARGS",
     "RGEERR_INVALIDENTRIES", "RGEERR_NENTRIESLARGE",
     "RGEERR_NENTRIESNEGATIVE", "RGEERR_NOEDGE", "RGEERR_BADEDGES",
     "RGEERR_INVALIDFMTNLAYERS", "RGEERR_INVALIDACCEPTANCEOPT",
     "RGEERR_INVALIDPID", "RGEERR_TOOMANYNUMBERS", "RGEERR_BADBINNING",
     "RGEERR_NOINPUTFILE", "RGEERR_NOSAMPFRACFILE", "RGEERR_NOACCCORRFILE",
     "RGEERR_NOGENFILE", "RGEERR_NOSIMFILE", "RGEERR_NODOTFILENAME",
     "RGEERR_BADFILENAMEFORMAT", "RGEERR_INVALIDROOTFILE",
     "RGEERR_INVALIDHIPOFILE", "RGEERR_BADINPUTFILE", "RGEERR_BADGENFILE",
     "RGEERR_BADSIMFILE", "RGEERR_BADROOTFILE", "RGEERR_WRONGGENFILE",
     "RGEERR_WRONGSIMFILE", "RGEERR_OUTFILEEXISTS",
     "RGEERR_OUTPUTROOTFAILED", "RGEERR_OUTPUTTEXTFAILED",
     "RGEERR_INVALIDCALLAYER", "RGEERR_INVALIDCALSECTOR",
     "RGEERR_INVALIDCHERENKOVID", "RGEERR_NOFMTBANK",
     "RGEERR_UNIMPLEMENTEDBEAMENERGY", "RGEERR_2DACCEPTANCEPLOT",
     "RGEERR_WRONGACCVARS", "RGEERR_INVALIDBANKID", "RGEERR_UNSUPPORTEDTYPE",
     "RGEERR_INVALIDENTRY", "RGEERR_WRONGENTRYTYPE", "RGEERR_PIDNOTFOUND",
     "RGEERR_UNSUPPORTEDPID", "RGEERR_ANGLEOUTOFRANGE", "RGEERR_NOACCDATA"}

\* A value of the uint rge_errno that is no key of ERRMAP.
RGEERR_UNLISTED == "rge_errno without an entry in ERRMAP"

\* handle_err without its early return for RGEERR_USAGE and with
\* RGEERR_UNDEFINED taken for the absence of an error.
handle_err_undefined_ok(errno) ==
    IF errno = "RGEERR_NOERR" \/ errno = "RGEERR_UNDEFINED" THEN 0
    ELSE IF errno \in ERRMAP THEN 1
    ELSE 2

\* handle_err(): the return value.
handle_err(errno) ==
    IF errno = "RGEERR_NOERR" THEN 0
    ELSE IF errno = "RGEERR_USAGE" THEN 1
    ELSE IF errno \in ERRMAP THEN 1
    ELSE 2

\* rge_print_usage(msg): the return value, and whether msg is printed.
rge_print_usage(errno) ==
    LET err == handle_err(errno) IN [err |-> err, usage |-> (err = 1)]

\* The clamp without its test for -1.
ClampEvents_nodefault(n, entries) ==
    IF n > entries THEN entries ELSE n

\* Lines 445-448: n_events becomes the number of entries of the tree if it
\* is -1 or larger than it.
ClampEvents(n, entries) ==
    IF n = 0 - 1 \/ n > entries THEN entries ELSE n

\* The input file: TFile::Open fails ("bad"), the file has no tree
\* ("notree"), or it has a tree of proc.entries entries ("ok"); the
\* sampling fraction parameters can be obtained ("ok") or not ("fail").
MainFiles == {"ok", "bad", "notree"}
MainSf == {"ok", "fail"}

\* The values -f and -n accept (USAGE_MESSAGE, ERRMAP lines 42-51);
\* the defaults of main are 0 and -1.
FmtNlayers == {0, 2, 3}
NEventsArgs == {0 - 1} \cup (1..MainMaxReq)

\* The ways handle_args returns 1, with the error number it leaves.
ArgErrors ==
    {"RGEERR_USAGE", "RGEERR_BADOPTARGS", "RGEERR_NOINPUTFILE",
     "RGEERR_INVALIDFMTNLAYERS", "RGEERR_NENTRIESNEGATIVE",
     "RGEERR_BADFILENAMEFORMAT"}

InitProc ==
    proc \in [file : MainFiles, sf : MainSf, has_fmt : BOOLEAN,
              entries : 0..MainMaxEntries, fmt_nlayers : {0},
              n_events : {0 - 1}, err : {NotReturned}, ran : {FALSE}, exit : {NotReturned},
              usage : {FALSE}]

\* main() at its first statement (lines 729-737), rge_errno as defined at
\* rge_err_handler.c line 171.
InitMain ==
    /\ pc = "main"
    /\ n_events = 0 - 1
    /\ fmt_cut = FALSE
    /\ InitProc
    /\ InitLocals

\* rge_print_usage called on an error number.
InitPrintUsage ==
    /\ pc = "err_call"
    /\ n_events = 0 - 1
    /\ fmt_cut = FALSE
    /\ proc = [file |-> "ok", sf |-> "ok", has_fmt |-> FALSE, entries |-> 0,
               fmt_nlayers |-> 0, n_events |-> 0 - 1, err |-> NotReturned,
               ran |-> FALSE, exit |-> NotReturned, usage |-> FALSE]
    /\ rge_errno \in ERRMAP \cup {RGEERR_UNLISTED}
    /\ agg = NoAgg
    /\ InitIdle

InitAll == InitMain \/ InitPrintUsage

MainFrame ==
    UNCHANGED <<event, banks, pos, part_trigger, trigger_state, counters,
                tree_out, file_out, ret, examined, ev_start, agg, visited, loaded, rowlog>>

\* main, lines 739-750: handle_args (lines 660-724) sets the options or
\* fails; run() is called with a copy of them if it returned 0 and
\* rge_errno is untouched.  proc holds the variables of main.
HandleArgs ==
    /\ pc = "main"
    /\ \/ \E e \in ArgErrors :
            /\ rge_errno' = e
            /\ proc' = [proc EXCEPT !.err = 1]
            /\ pc' = "norun"
            /\ UNCHANGED <<n_events, fmt_cut>>
       \/ \E f \in FmtNlayers, n \in NEventsArgs, c \in BOOLEAN :
            /\ n_events' = n
            /\ fmt_cut' = c
            /\ proc' = [proc EXCEPT !.err = 0, !.fmt_nlayers = f,
                                    !.n_events = n,
                                    !.ran = (rge_errno = "RGEERR_UNDEFINED")]
            /\ pc' = IF rge_errno = "RGEERR_UNDEFINED" THEN "run"
                     ELSE "norun"
            /\ UNCHANGED rge_errno
    /\ MainFrame

\* return 1 before the event loop.
PreludeAbort(e) ==
    Abort(e) /\ UNCHANGED <<part_trigger, examined, rowlog>>

\* run(), lines 383-468: from the sampling fraction to the event loop.
RunPrelude ==
    /\ pc = "run"
    /\ IF proc.sf = "fail" THEN PreludeAbort("RGEERR_NOSAMPFRACFILE")
       ELSE IF proc.file = "bad" THEN PreludeAbort("RGEERR_BADINPUTFILE")
       ELSE IF proc.fmt_nlayers # 0 /\ proc.has_fmt
            THEN PreludeAbort("RGEERR_NOFMTBANK")
       ELSE IF proc.file = "notree" THEN PreludeAbort("RGEERR_BADROOTFILE")
       ELSE /\ n_events' = ClampEvents(n_events, proc.entries)
            /\ pc' = "event"
            /\ UNCHANGED <<event, fmt_cut, banks, pos, part_trigger,
                           trigger_state, counters, tree_out, file_out,
                           rge_errno, ret, examined, ev_start, agg, proc,
                           visited, loaded, rowlog>>

\* Line 481 with a tree that has no FMT::Tracks branch: the program
\* crashes (USAGE_MESSAGE, lines 144-147).
ReadFmtCrash ==
    /\ pc = "event"
    /\ event < n_events
    /\ ReadsFmt(fmt_nlayers)
    /\ ~proc.has_fmt
    /\ pc' = "crashed"
    /\ UNCHANGED <<event, n_events, fmt_cut, banks, pos, part_trigger,
                   trigger_state, counters, tree_out, file_out, rge_errno,
                   ret, examined, ev_start, agg, proc, visited, loaded, rowlog>>

MainPartBanks == {<<Electron, PionPlus>>}
MainCalBanks ==
    {<<[pindex |-> 0, layer |-> PCAL_LYR, energy |-> 1, time |-> 20]>>}
MainTrkBanks == {<<>>, <<[pindex |-> 0, sector |-> 1]>>,
                 <<[pindex |-> 1, sector |-> 1],
                   [pindex |-> 0, sector |-> 1],
                   [pindex |-> 1, sector |-> 1]>>}

ReadEventMain ==
    /\ ReadsFmt(fmt_nlayers) => proc.has_fmt
    /\ ReadEvent(MainPartBanks, MainTrkBanks, MainCalBanks, {<<>>}, {<<>>})

\* main, line 758: the exit code is the value of rge_print_usage.
Exit ==
    /\ pc \in {"done", "norun"}
    /\ LET r == rge_print_usage(rge_errno) IN
        proc' = [proc EXCEPT !.exit = r.err, !.usage = r.usage]
    /\ pc' = "exited"
    /\ UNCHANGED <<n_events, fmt_cut, rge_errno>>
    /\ MainFrame

CallPrintUsage ==
    /\ pc = "err_call"
    /\ LET r == rge_print_usage(rge_errno) IN
        proc' = [proc EXCEPT !.exit = r.err, !.usage = r.usage]
    /\ pc' = "err_done"
    /\ UNCHANGED <<n_events, fmt_cut, rge_errno>>
    /\ MainFrame

NextMain ==
    \/ HandleArgs
    \/ RunPrelude
    \/ ReadFmtCrash
    \/ ReadEventMain
    \/ TriggerStep
    \/ CheckTrigger
    \/ OtherStep
    \/ Finish
    \/ Exit
    \/ CallPrintUsage

SpecMain == InitAll /\ [][NextMain]_vars

----------------------------------------------------------------------------
(* SpecCut: run() on one event of an electron and a pion whose polar       *)
(* angles sit at, just outside, or between the bounds of the FMT window    *)
(* of their vertex, with and without the FMT geometry cut.  The pion may   *)
(* be absent from the Particle bank, its track row has no particle then;   *)
(* its calorimeter row may carry an unknown layer, its Cherenkov row an    *)
(* unknown detector.                                                       *)

\* Vertex and polar angle: around the bounds for vz = 0, and for vz = -10
\* an angle inside its window only and one outside it only.
CutKinematics ==
    [vz : {0}, theta : {THETA_MIN_VZ0 - 1, THETA_MIN_VZ0, THETA_MAX_VZ0,
                        THETA_MAX_VZ0 + 1}]
    \cup [vz : {0 - 10}, theta : {150, 500}]
CutPartBanks ==
    {<<[pid |-> 11, vz |-> e.vz, theta |-> e.theta],
       [pid |-> 211, vz |-> h.vz, theta |-> h.theta]>> :
        e \in CutKinematics, h \in CutKinematics}
    \cup {<<[pid |-> 11, vz |-> e.vz, theta |-> e.theta]>> :
            e \in CutKinematics}
CutTrkBanks ==
    {<<[pindex |-> 0, sector |-> 1], [pindex |-> 1, sector |-> 1]>>,
     <<[pindex |-> 1, sector |-> 1], [pindex |-> 0, sector |-> 1]>>,
     <<[pindex |-> 1, sector |-> 1]>>}
CutCalBanks ==
    {<<[pindex |-> 0, layer |-> PCAL_LYR, energy |-> 1, time |-> 20]>>,
     <<[pindex |-> 0, layer |-> PCAL_LYR, energy |-> 1, time |-> 20],
       [pindex |-> 1, layer |-> 9, energy |-> 1, time |-> 20]>>}

InitCut ==
    /\ InitLoop
    /\ n_events = 1
    /\ fmt_cut \in BOOLEAN

CutChkvBanks == {<<>>, <<[pindex |-> 1, detector |-> 99, nphe |-> 1]>>}

ReadEventCut ==
    ReadEvent(CutPartBanks, CutTrkBanks, CutCalBanks, CutChkvBanks, {<<>>})

NextCut ==
    \/ ReadEventCut
    \/ TriggerStep
    \/ CheckTrigger
    \/ OtherStep
    \/ Finish

SpecCut == InitCut /\ [][NextCut]_vars

----------------------------------------------------------------------------
(* SpecSf: run() on one event of an electron and a pion whose track rows   *)
(* lie in any of the six sectors.                                          *)

SfPartBanks == {<<Electron, PionPlus>>}
SfTrkRows == [pindex : PindexDom, sector : 1..RGE_NSECTORS]
SfTrkBanks == SeqsUpTo(SfTrkRows, SfMaxTrk)
SfCalBanks ==
    {<<[pindex |-> 0, layer |-> PCAL_LYR, energy |-> 1, time |-> 20]>>}

InitSf ==
    /\ InitLoop
    /\ n_events = 1
    /\ fmt_cut = FALSE

ReadEventSf ==
    ReadEvent(SfPartBanks, SfTrkBanks, SfCalBanks, {<<>>}, {<<>>})

NextSf ==
    \/ ReadEventSf
    \/ TriggerStep
    \/ CheckTrigger
    \/ OtherStep
    \/ Finish

SpecSf == InitSf /\ [][NextSf]_vars

----------------------------------------------------------------------------
(* SpecTrig: run() on two events whose trigger electrons differ: the       *)
(* electron is the first or the second particle, at one polar angle or     *)
(* another, its calorimeter hit at one time or another; a pion or a        *)
(* second electron is scanned before or after it.                          *)

TrigPartBanks ==
    {<<Electron, PionPlus>>, <<PionMinus, ElectronLow>>,
     <<Electron, ElectronLow>>}
TrigTrkBanks ==
    {<<[pindex |-> 0, sector |-> 1], [pindex |-> 1, sector |-> 1]>>,
     <<[pindex |-> 1, sector |-> 1], [pindex |-> 0, sector |-> 1]>>,
     <<[pindex |-> 1, sector |-> 1], [pindex |-> 0, sector |-> 1],
       [pindex |-> 1, sector |-> 1]>>}
TrigCalBanks ==
    {<<[pindex |-> 0, layer |-> PCAL_LYR, energy |-> 1, time |-> 20],
       [pindex |-> 1, layer |-> ECIN_LYR, energy |-> 1, time |-> 30]>>,
     <<[pindex |-> 0, layer |-> PCAL_LYR, energy |-> 1, time |-> 25]>>}

InitTrig ==
    /\ InitLoop
    /\ n_events = TrigEvents
    /\ fmt_cut \in BOOLEAN

ReadEventTrig ==
    ReadEvent(TrigPartBanks, TrigTrkBanks, TrigCalBanks, {<<>>}, {<<>>})

NextTrig ==
    \/ ReadEventTrig
    \/ TriggerStep
    \/ CheckTrigger
    \/ OtherStep
    \/ Finish

SpecTrig == InitTrig /\ [][NextTrig]_vars

----------------------------------------------------------------------------
(* SpecTof: get_tof called on banks of up to three rows of one particle,   *)
(* with a row of another particle among them: the scintillator bank        *)
(* varies and the calorimeter bank is empty or holds a PCAL row, or the    *)
(* calorimeter bank varies and no FTOF row is of the particle.             *)

TofSciRows ==
    [pindex : {0}, detector : {FTOF_ID},
     layer : {FTOF1A_LYR, FTOF1B_LYR, FTOF2_LYR}]
    \cup [pindex : {1}, detector : {FTOF_ID}, layer : {FTOF1B_LYR}]
TofCalRows ==
    [pindex : {0}, layer : {PCAL_LYR, ECIN_LYR, ECOU_LYR}]
    \cup [pindex : {1}, layer : {PCAL_LYR}]

InitTof ==
    \/ InitCall({SciBank(r) : r \in SeqsUpTo(TofSciRows, TofMaxRows)},
                {CalBank(r) : r \in {<<>>, <<[pindex |-> 0,
                                              layer |-> PCAL_LYR]>>}},
                {<<>>})
    \/ InitCall({SciBank(r) : r \in {<<>>, <<[pindex |-> 1,
                                              detector |-> FTOF_ID,
                                              layer |-> FTOF1B_LYR]>>}},
                {CalBank(r) : r \in SeqsUpTo(TofCalRows, TofMaxRows)},
                {<<>>})

NextTof == CallTof

SpecTof == InitTof /\ [][NextTof]_vars

----------------------------------------------------------------------------
(* SpecName: the output file name of hipo2root's main (src/src/hipo2root.c *)
(* lines 19-48).  A string is the sequence of its characters; it takes one *)
(* byte more than its length, for the terminating NUL.                     *)

RootIoDir == <<".", ".", "/", "r", "o", "o", "t", "_", "i", "o", "/">>
DotRoot == <<".", "r", "o", "o", "t">>
Digit(d) == <<"0", "1", "2", "3", "4", "5", "6", "7", "8", "9">>[d + 1]

\* The run numbers of the data branch: the small ones, and those around
\* each test of lines 34-38.
NameEdgeRuns == {999, 1000, 9999, 10000, 99999, 100000, 999999}
NameRuns == 0..NameSmallRuns \cup NameEdgeRuns
\* The last argument of the simulation branch.
NameSimulArgs == {<<"a">>, <<"m", "c">>}

\* sprintf's %d of a number that is not negative.
RECURSIVE Decimal(_)
Decimal(n) ==
    IF n < 10 THEN <<Digit(n)>>
    ELSE Decimal(n \div 10) \o <<Digit(n % 10)>>

\* Lines 34-39: the zeros of the format that the tests on run_no select.
NameZeros(run_no) ==
    IF run_no \div 10 = 0 THEN <<"0", "0", "0", "0", "0">>
    ELSE IF run_no \div 100 = 0 THEN <<"0", "0", "0", "0">>
    ELSE IF run_no \div 1000 = 0 THEN <<"0", "0", "0">>
    ELSE IF run_no \div 10000 = 0 THEN <<"0", "0">>
    ELSE IF run_no \div 100000 = 0 THEN <<"0">>
    ELSE <<>>

\* Lines 34-39: the string sprintf writes in the data branch.
DataName(run_no) ==
    RootIoDir \o NameZeros(run_no) \o Decimal(run_no) \o DotRoot
\* Line 45: the string of the simulation branch.
SimulName(arg) == arg \o DotRoot

\* Lines 33 and 44: the bytes malloc is asked for.
DataBufSize(run_no) == NAME_BUF_SIZE
SimulBufSize(arg) == 5 + Len(arg) + 1

\* sprintf writes the string and its NUL from the start of the buffer; the
\* bytes that do not fit are written past its end.
Overrun(name, size) ==
    IF Len(name) + 1 > size THEN Len(name) + 1 - size ELSE 0

\* Line 48: what TFile::Open gets.  After a write past the end of the
\* buffer the behaviour is undefined: the allocator's padding took the
\* bytes and the string reads back whole, the byte after the buffer was
\* since overwritten and the string runs on, or the process is stopped.
NameOutcomes(name, size) ==
    IF Overrun(name, size) = 0 THEN {name}
    ELSE {name, name \o <<"?">>, <<"abort">>}

InitName ==
    /\ pc = "name"
    /\ n_events = 0
    /\ fmt_cut = FALSE
    /\ proc = NoProc
    /\ rge_errno = "RGEERR_UNDEFINED"
    /\ \/ \E run_no \in NameRuns :
            agg = [fn |-> "main", use_simul |-> FALSE, run_no |-> run_no,
                   arg |-> <<>>, size |-> 0, out_filename |-> <<>>,
                   overrun |-> 0, opened |-> <<>>]
       \/ \E arg \in NameSimulArgs :
            agg = [fn |-> "main", use_simul |-> TRUE, run_no |-> 0 - 1,
                   arg |-> arg, size |-> 0, out_filename |-> <<>>,
                   overrun |-> 0, opened |-> <<>>]
    /\ InitIdle

NameFrame ==
    UNCHANGED <<event, n_events, fmt_cut, banks, pos, part_trigger,
                trigger_state, counters, tree_out, file_out, rge_errno, ret,
                examined, ev_start, proc, visited, loaded, rowlog>>

\* Lines 30-39: the data branch.
NameData ==
    /\ pc = "name"
    /\ ~agg.use_simul
    /\ LET name == DataName(agg.run_no)
           size == DataBufSize(agg.run_no)
       IN agg' = [agg EXCEPT !.size = size, !.out_filename = name,
                             !.overrun = Overrun(name, size)]
    /\ pc' = "name_made"
    /\ NameFrame

\* Lines 40-46: the simulation branch.
NameSimul ==
    /\ pc = "name"
    /\ agg.use_simul
    /\ LET name == SimulName(agg.arg)
           size == SimulBufSize(agg.arg)
       IN agg' = [agg EXCEPT !.size = size, !.out_filename = name,
                             !.overrun = Overrun(name, size)]
    /\ pc' = "name_made"
    /\ NameFrame

\* Line 48: the file is opened under the name read from the buffer.
NameOpen ==
    /\ pc = "name_made"
    /\ \E opened \in NameOutcomes(agg.out_filename, agg.size) :
        agg' = [agg EXCEPT !.opened = opened]
    /\ pc' = "name_done"
    /\ NameFrame

NextName ==
    \/ NameData
    \/ NameSimul
    \/ NameOpen

SpecName == InitName /\ [][NextName]_vars

----------------------------------------------------------------------------
(* SpecBank: a bank container by itself.  It is populated from the rows    *)
(* of an event, once per event, and read by field name and row index.      *)

\* Two of the fields of a bank (REC::Scintillator pindex and time).
BankFields == {"pindex", "time"}
BankRows == [pindex : PindexDom, time : {10, 20}]

\* rge_hipobank_init: no rows, every field empty.
rge_hipobank_init ==
    [fn |-> "rge_hipobank_init", fills |-> 0, hb |-> <<>>, nrows |-> 0,
     entries |-> [f \in BankFields |-> <<>>],
     var |-> "pindex", idx |-> 0, val |-> 0, err |-> 0]

\* Populating that keeps the values of the event before.
rge_fill_stale(rb, hb) ==
    [rb EXCEPT !.fn = "rge_fill", !.fills = @ + 1, !.hb = hb,
               !.nrows = Len(hb),
               !.entries = [f \in BankFields |->
                   rb.entries[f] \o [i \in 1..Len(hb) |-> hb[i][f]]]]

\* rge_fill / rge_get_entries: the row count and, per field, the values of
\* the rows of the event; the values of the event before are overwritten.
rge_fill(rb, hb) ==
    [rb EXCEPT !.fn = "rge_fill", !.fills = @ + 1, !.hb = hb,
               !.nrows = Len(hb),
               !.entries = [f \in BankFields |->
                                [i \in 1..Len(hb) |-> hb[i][f]]]]

\* get_entry behind rge_get_double, rge_get_int and rge_get_uint: the value
\* of field var at row idx, or an error past the end of the field.
get_entry(b, var, idx) ==
    IF idx >= Len(b.entries[var])
    THEN [b EXCEPT !.fn = "get_entry", !.var = var, !.idx = idx,
                   !.val = 0, !.err = 1]
    ELSE [b EXCEPT !.fn = "get_entry", !.var = var, !.idx = idx,
                   !.val = b.entries[var][idx + 1], !.err = 0]

InitBank ==
    /\ pc = "bank"
    /\ n_events = 0
    /\ fmt_cut = FALSE
    /\ proc = NoProc
    /\ InitLocals

BankFrame ==
    UNCHANGED <<pc, event, n_events, fmt_cut, banks, pos, part_trigger,
                trigger_state, counters, tree_out, file_out, ret, examined,
                ev_start, proc, visited, loaded, rowlog>>

BankOf(a) == IF a = NoAgg THEN rge_hipobank_init ELSE a

\* The bank is populated with the rows of the next event.
BankFill ==
    /\ pc = "bank"
    /\ BankOf(agg).fills < BankMaxFills
    /\ \E hb \in SeqsUpTo(BankRows, BankMaxRows) :
        agg' = rge_fill(BankOf(agg), hb)
    /\ UNCHANGED rge_errno
    /\ BankFrame

\* rge_get_double / rge_get_int / rge_get_uint (b, var, idx).
BankGet ==
    /\ pc = "bank"
    /\ BankOf(agg).fills >= 1
    /\ \E var \in BankFields, idx \in 0..BankMaxRows :
        LET r == get_entry(agg, var, idx) IN
        /\ agg' = r
        /\ rge_errno' = IF r.err = 1 THEN "RGEERR_INVALIDENTRY"
                        ELSE rge_errno
    /\ BankFrame

NextBank ==
    \/ BankFill
    \/ BankGet

SpecBank == InitBank /\ [][NextBank]_vars

----------------------------------------------------------------------------
(* SpecIo: catch_string (src/src/utilities.c lines 34-47) called on a list *)
(* of strings, the user typing strings one after the other.                *)

IoStrings == {"a", "b"}
\* What the user may type: the strings of the lists and another one.
IoTyped == IoStrings \cup {"z"}
\* Line 36 declares x without a value: it holds -1, an index of the list,
\* or anything else.
UninitX == {0 - 1, 0, 5}

\* Line 43: x becomes the last index i with list[i] equal to str, if any.
CatchScan(list, str, x) ==
    LET hits == {i \in DOMAIN list : list[i] = str} IN
    IF hits = {} THEN x
    ELSE (CHOOSE i \in hits : \A k \in hits : k <= i) - 1

InitCatch ==
    /\ pc = "catch"
    /\ n_events = 0
    /\ fmt_cut = FALSE
    /\ proc = NoProc
    /\ rge_errno = "RGEERR_UNDEFINED"
    /\ \E list \in SeqsUpTo(IoStrings, CatchMaxList),
          stdin \in SeqsUpTo(IoTyped, CatchMaxTyped), x \in UninitX :
        /\ Len(list) >= 1
        /\ agg = [fn |-> "catch_string", list |-> list, stdin |-> stdin,
                  x |-> x, str |-> "", asked |-> 0, ret |-> NotReturned]
    /\ InitIdle

\* Lines 37-44: one turn of the loop; scanf waits for the next string.
CatchTurn ==
    /\ pc = "catch"
    /\ agg.stdin # <<>>
    /\ LET str == Head(agg.stdin)
           x == CatchScan(agg.list, str, agg.x)
       IN
        /\ agg' = [agg EXCEPT !.stdin = Tail(@), !.str = str, !.x = x,
                              !.asked = @ + 1,
                              !.ret = IF x # 0 - 1 THEN x ELSE @]
        /\ pc' = IF x # 0 - 1 THEN "catch_done" ELSE "catch"
    /\ UNCHANGED <<event, n_events, fmt_cut, banks, pos, part_trigger,
                   trigger_state, counters, tree_out, file_out, rge_errno,
                   ret, examined, ev_start, proc, visited, loaded, rowlog>>

NextIo == CatchTurn

SpecIo == InitCatch /\ [][NextIo]_vars

----------------------------------------------------------------------------
(* SpecAcc: count_entries of acc_corr (src/src/acc_corr.c lines 39-113)    *)
(* called for a PID on a tree of entries.  Kinematic values are integers   *)
(* in tenths, phiPQ in tenths of a radian, or of a degree when the thrown  *)
(* events are in degrees.  The binning has one bin in Q2, nu, zh and Pt2   *)
(* and two bins in phiPQ.                                                  *)

\* nbins and edges of the call; the edges of phiPQ are in radians, main
\* converted them (lines 316-321).
AccNbins == <<1, 1, 1, 1, 2>>
AccEdges == <<<<0, 100>>, <<0, 100>>, <<10, 100>>, <<10, 100>>,
              <<0 - 32, 0, 32>>>>
AccBins == {<<0, 0, 0, 0, 0>>, <<0, 0, 0, 0, 1>>}
AccPids == {211, 0 - 211}

\* Entries of the tree: in the first phiPQ bin, in the second, with a Q2
\* below the DIS cut, with a W and W2 below it, with a Pt2 outside of the
\* binning, with a nu of 0, with a phiPQ of 60 degrees and of 200 degrees.
AccKinematics ==
    {[s_bin |-> <<20, 20, 20, 20, 0 - 10>>, W |-> 30, W2 |-> 90],
     [s_bin |-> <<20, 20, 20, 20, 10>>, W |-> 30, W2 |-> 90],
     [s_bin |-> <<5, 20, 20, 20, 10>>, W |-> 30, W2 |-> 90],
     [s_bin |-> <<20, 20, 20, 20, 10>>, W |-> 10, W2 |-> 10],
     [s_bin |-> <<20, 20, 20, 200, 10>>, W |-> 30, W2 |-> 90],
     [s_bin |-> <<20, 0, 20, 20, 10>>, W |-> 30, W2 |-> 90],
     [s_bin |-> <<20, 20, 20, 20, 600>>, W |-> 30, W2 |-> 90],
     [s_bin |-> <<20, 20, 20, 20, 2000>>, W |-> 30, W2 |-> 90]}
AccEntries ==
    {[pid |-> p, s_bin |-> k.s_bin, W |-> k.W, W2 |-> k.W2] :
        p \in AccPids, k \in AccKinematics}

\* find_pos(v, edges, nbins): the bin of v, counted from 0, or -1 when v is
\* outside of the edges.
find_pos(v, edges, nbins) ==
    LET hits == {i \in 1..nbins : edges[i] <= v /\ v < edges[i + 1]} IN
    IF hits = {} THEN 0 - 1 ELSE (CHOOSE i \in hits : TRUE) - 1

\* to_rad(src, &dst): an angle in degrees to radians; it fails on an angle
\* outside of -180 .. 180.  src is in tenths of a degree, dst in tenths of
\* a radian.
to_rad(src) ==
    IF src < 0 - 1800 \/ src > 1800
    THEN [err |-> 1, dst |-> 0]
    ELSE [err |-> 0, dst |-> (src * 31416) \div 1800000]

\* Line 75: the condition under which the entry is passed over.
PidContinue(pid, s_pid) ==
    10 * pid - 5 < 10 * s_pid /\ 10 * s_pid < 10 * pid + 5

\* Lines 81-83: the entry fails a DIS cut.
DisContinue(e, simul) ==
    \/ e.s_bin[1] < Q2CUT
    \/ ~simul /\ e.W < WCUT
    \/ simul /\ e.W2 < W2CUT

\* Line 78: the for over the five values; its continue goes on with the
\* next value and leaves the for at its end: control reaches line 81
\* whatever the values are.
ZeroContinue(s_bin) == FALSE

\* Lines 87-91: s_bin[4] as find_pos sees it.
PhiPQ(e, in_deg) == IF in_deg THEN to_rad(e.s_bin[5]).dst ELSE e.s_bin[5]

\* Lines 92-97: idx, the bin of the entry in each dimension.
EntryIdx(e, in_deg) ==
    [bi \in 1..5 |->
        find_pos(IF bi = 5 THEN PhiPQ(e, in_deg) ELSE e.s_bin[bi],
                 AccEdges[bi], AccNbins[bi])]

\* Lines 71-102: what one turn of the loop does with entry e: "continue",
\* "return" (line 89), or "count".
EntryTurn(e, pid, in_deg, simul) ==
    IF PidContinue(pid, e.pid) \/ ZeroContinue(e.s_bin)
       \/ DisContinue(e, simul)
    THEN "continue"
    ELSE IF in_deg /\ to_rad(e.s_bin[5]).err # 0 THEN "return"
    ELSE IF \E bi \in 1..5 : EntryIdx(e, in_deg)[bi] < 0 THEN "continue"
    ELSE "count"

\* Lines 105-110: the counts in the order they are written.
WriteCounts(evn_cnt) ==
    <<evn_cnt[<<0, 0, 0, 0, 0>>], evn_cnt[<<0, 0, 0, 0, 1>>]>>

InitAcc ==
    /\ pc = "count"
    /\ n_events = 0
    /\ fmt_cut = FALSE
    /\ proc = NoProc
    /\ rge_errno = "RGEERR_UNDEFINED"
    /\ \E tree \in SeqsUpTo(AccEntries, AccMaxEntries), pid \in AccPids,
          simul \in BOOLEAN, in_deg \in BOOLEAN :
        agg = [fn |-> "count_entries", tree |-> tree, pid |-> pid,
               simul |-> simul, in_deg |-> in_deg, evn |-> 0,
               evn_cnt |-> [b \in AccBins |-> 0], out |-> <<>>,
               ret |-> NotReturned, hits |-> <<>>]
    /\ InitIdle

AccFrame ==
    UNCHANGED <<event, n_events, fmt_cut, banks, pos, part_trigger,
                trigger_state, counters, tree_out, file_out, rge_errno, ret,
                examined, ev_start, proc, visited, loaded, rowlog>>

\* Lines 71-102: one turn of the loop over the entries of the tree.  hits
\* is a history field: the bins incremented, in order.
CountEntry ==
    /\ pc = "count"
    /\ agg.evn < Len(agg.tree)
    /\ LET e == agg.tree[agg.evn + 1]
           turn == EntryTurn(e, agg.pid, agg.in_deg, agg.simul)
           idx == EntryIdx(e, agg.in_deg)
       IN
        IF turn = "return"
        THEN /\ agg' = [agg EXCEPT !.ret = 1]
             /\ pc' = "count_done"
        ELSE /\ agg' = IF turn = "continue"
                       THEN [agg EXCEPT !.evn = @ + 1]
                       ELSE [agg EXCEPT !.evn = @ + 1,
                                        !.evn_cnt[idx] = @ + 1,
                                        !.hits = Append(@, idx)]
             /\ UNCHANGED pc
    /\ AccFrame

\* Lines 104-112: the counts are written, bin after bin, and 0 returned.
CountWrite ==
    /\ pc = "count"
    /\ agg.evn >= Len(agg.tree)
    /\ agg' = [agg EXCEPT !.out = WriteCounts(agg.evn_cnt), !.ret = 0]
    /\ pc' = "count_done"
    /\ AccFrame

NextAcc ==
    \/ CountEntry
    \/ CountWrite

SpecAcc == InitAcc /\ [][NextAcc]_vars

----------------------------------------------------------------------------
(* SpecAccRun: run() of acc_corr (src/src/acc_corr.c lines 116-223).  The  *)
(* two input files are unreadable, lack their tree, or hold a tree; the    *)
(* output file <data_dir>/acc_corr.txt is absent or holds an old line.     *)
(* A file is the sequence of the lines written to it.                      *)

\* count_entries as run() calls it: the loop of lines 71-102 from entry
\* evn on, then the counts of lines 105-110; a failed to_rad returns 1 with
\* nothing written.
RECURSIVE CountLoop(_, _, _, _, _, _)
CountLoop(tree, evn, evn_cnt, pid, in_deg, simul) ==
    IF evn >= Len(tree)
    THEN [ret |-> 0, out |-> <<WriteCounts(evn_cnt)>>]
    ELSE LET e == tree[evn + 1]
             turn == EntryTurn(e, pid, in_deg, simul)
         IN IF turn = "return" THEN [ret |-> 1, out |-> <<>>]
            ELSE CountLoop(tree, evn + 1,
                           IF turn = "count"
                           THEN [evn_cnt EXCEPT ![EntryIdx(e, in_deg)] = @ + 1]
                           ELSE evn_cnt,
                           pid, in_deg, simul)
count_entries(tree, pid, in_deg, simul) ==
    CountLoop(tree, 0, [b \in AccBins |-> 0], pid, in_deg, simul)

\* The state of an input file, and the error of lines 123-143 for it.
AccFileStates == {"zombie", "notree", "ok"}
AccAbsent == <<"absent">>
AccOldFile == <<<<"old">>>>
\* The entries of the trees of run(): a pion of each sign in the second
\* phiPQ bin, and a positive one at 200 degrees.
AccRunEntries ==
    {e \in AccEntries :
        \/ e.s_bin = <<20, 20, 20, 20, 10>> /\ e.W = 30
        \/ e.s_bin = <<20, 20, 20, 20, 2000>> /\ e.pid = 211}
AccSimulTrees ==
    {<<>>, <<[pid |-> 211, s_bin |-> <<20, 20, 20, 20, 10>>,
              W |-> 30, W2 |-> 90]>>}

InitAccRun ==
    /\ pc = "acc_run"
    /\ n_events = 0
    /\ fmt_cut = FALSE
    /\ proc = NoProc
    /\ rge_errno = "ERR_UNDEFINED"
    /\ \E tf \in AccFileStates, sf \in AccFileStates,
          thrown \in SeqsUpTo(AccRunEntries, AccRunMaxEntries),
          simul \in AccSimulTrees, in_deg \in BOOLEAN,
          fs \in {AccAbsent, AccOldFile} :
        /\ tf # "ok" => thrown = <<>> /\ sf = "ok" /\ simul = <<>>
        /\ sf # "ok" => simul = <<>>
        /\ agg = [fn |-> "acc_run", thrown_file |-> tf, simul_file |-> sf,
                  thrown |-> thrown, simul |-> simul, in_deg |-> in_deg,
                  out_file |-> fs, fs0 |-> fs, fopened |-> FALSE,
                  evn |-> 0, pidlist |-> <<>>, pid_i |-> 0]
    /\ InitIdle

\* Line 148: !access(out_filename, F_OK), the output file exists.
OutFileExists_never(fs) == FALSE
OutFileExists(fs) == fs # AccAbsent

\* Lines 120-164: the input files are opened, the output file is created
\* unless it exists, the numbers of edges and the edges are written to it.
AccReturn(e) ==
    /\ rge_errno' = e
    /\ ret' = 1
    /\ pc' = "acc_done"
    /\ UNCHANGED agg
AccOpen ==
    /\ pc = "acc_run"
    /\ IF agg.thrown_file = "zombie" THEN AccReturn("ERR_WRONGGENFILE")
       ELSE IF agg.thrown_file = "notree" THEN AccReturn("ERR_BADGENFILE")
       ELSE IF agg.simul_file = "zombie" THEN AccReturn("ERR_WRONGSIMFILE")
       ELSE IF agg.simul_file = "notree" THEN AccReturn("ERR_BADSIMFILE")
       ELSE IF OutFileExists(agg.out_file)
            THEN AccReturn("ERR_OUTFILEEXISTS")
       ELSE /\ agg' = [agg EXCEPT
                          !.fopened = TRUE,
                          !.out_file =
                              <<[i \in 1..5 |-> Len(AccEdges[i])]>>
                              \o [i \in 1..5 |-> AccEdges[i]]]
            /\ pc' = "acc_pids"
            /\ UNCHANGED <<rge_errno, ret>>
    /\ UNCHANGED <<event, n_events, fmt_cut, banks, pos, part_trigger,
                   trigger_state, counters, tree_out, file_out, examined,
                   ev_start, proc, visited, loaded, rowlog>>

\* Lines 174-185: one turn of the loop that collects the PIDs of the
\* thrown events.
PidFound(pidlist, s_pid) ==
    \E pid_i \in 1..Len(pidlist) :
        /\ 10 * pidlist[pid_i] - 5 <= 10 * s_pid
        /\ 10 * s_pid <= 10 * pidlist[pid_i] + 5
AccPidTurn ==
    /\ pc = "acc_pids"
    /\ agg.evn < Len(agg.thrown)
    /\ LET s_pid == agg.thrown[agg.evn + 1].pid IN
        agg' = IF PidFound(agg.pidlist, s_pid)
               THEN [agg EXCEPT !.evn = @ + 1]
               ELSE [agg EXCEPT !.evn = @ + 1,
                                !.pidlist = Append(@, s_pid)]
    /\ UNCHANGED pc
    /\ AccFrame

\* Lines 187-198: the list of PIDs is written.
AccPidWrite ==
    /\ pc = "acc_pids"
    /\ agg.evn >= Len(agg.thrown)
    /\ agg' = [agg EXCEPT !.out_file =
                   @ \o <<<<Len(agg.pidlist)>>, agg.pidlist>>]
    /\ pc' = "acc_count"
    /\ AccFrame

\* Lines 201-212: the thrown and the simulated events of one PID are
\* counted and written; the value count_entries returns is not read.
AccCountPid ==
    /\ pc = "acc_count"
    /\ agg.pid_i < Len(agg.pidlist)
    /\ LET pid == agg.pidlist[agg.pid_i + 1] IN
        agg' = [agg EXCEPT
                   !.pid_i = @ + 1,
                   !.out_file =
                       @ \o count_entries(agg.thrown, pid, agg.in_deg,
                                          FALSE).out
                         \o count_entries(agg.simul, pid, FALSE, TRUE).out]
    /\ UNCHANGED pc
    /\ AccFrame

\* Lines 214-222: the files are closed, run() returns 0.
AccClose ==
    /\ pc = "acc_count"
    /\ agg.pid_i >= Len(agg.pidlist)
    /\ rge_errno' = "ERR_NOERR"
    /\ ret' = 0
    /\ pc' = "acc_done"
    /\ UNCHANGED <<event, n_events, fmt_cut, banks, pos, part_trigger,
                   trigger_state, counters, tree_out, file_out, examined,
                   ev_start, agg, proc, visited, loaded, rowlog>>

NextAccRun ==
    \/ AccOpen
    \/ AccPidTurn
    \/ AccPidWrite
    \/ AccCountPid
    \/ AccClose

SpecAccRun == InitAccRun /\ [][NextAccRun]_vars

----------------------------------------------------------------------------
(* Vocabulary of the properties.                                           *)

RECURSIVE SumOver(_, _)
SumOver(S, f) ==
    IF S = {} THEN 0
    ELSE LET x == CHOOSE y \in S : TRUE IN f[x] + SumOver(S \ {x}, f)

CalLayers == {PCAL_LYR, ECIN_LYR, ECOU_LYR}
CherenkovIds == {HTCC_ID, LTCC_ID}

\* Rows of a bank that belong to a particle index.
RowsOf(bank, pindex) == {i \in DOMAIN bank : bank[i].pindex = pindex}
BadCalLayer(pindex) ==
    \E i \in RowsOf(bcal, pindex) : bcal[i].layer \notin CalLayers
BadChkvId(pindex) ==
    \E i \in RowsOf(bchkv, pindex) : bchkv[i].detector \notin CherenkovIds
LayerEnergy(pindex, layer) ==
    SumOver({i \in RowsOf(bcal, pindex) : bcal[i].layer = layer},
            [i \in DOMAIN bcal |-> bcal[i].energy])
DetectorNphe(pindex, detector) ==
    SumOver({i \in RowsOf(bchkv, pindex) : bchkv[i].detector = detector},
            [i \in DOMAIN bchkv |-> bchkv[i].nphe])

TrackRows == 0..(Len(btrk) - 1)
RowPindex(p) == btrk[p + 1].pindex
\* The track row is valid and passes the optional geometry cut.
Accepted(p) ==
    /\ RowPindex(p) < Len(bpart)
    /\ fmt_cut =>
        /\ bpart[RowPindex(p) + 1].theta >= theta_min(bpart[RowPindex(p) + 1].vz)
        /\ bpart[RowPindex(p) + 1].theta <= theta_max(bpart[RowPindex(p) + 1].vz)
\* The track row is accepted and classified as trigger electron.
Qualifies(p) ==
    /\ Accepted(p)
    /\ ~BadCalLayer(RowPindex(p))
    /\ ~BadChkvId(RowPindex(p))
    /\ bpart[RowPindex(p) + 1].pid = 11
    /\ LayerEnergy(RowPindex(p), PCAL_LYR) + LayerEnergy(RowPindex(p), ECIN_LYR)
        + LayerEnergy(RowPindex(p), ECOU_LYR) > 0

\* The records appended for the event being processed (or just processed).
EventRecords == SubSeq(tree_out, ev_start.n + 1, Len(tree_out))
\* A record filled for the trigger electron: the particle is its own
\* trigger reference (lines 542-546).
TriggerFlagged(r) == r.p.row = r.e.row
\* An event has been processed to its end and its banks are still loaded.
EventDone == pc = "event" /\ event >= 1

----------------------------------------------------------------------------
(* Properties of the trigger search and of the loop over the others.       *)

FlaggedRecords ==
    {i \in DOMAIN EventRecords : TriggerFlagged(EventRecords[i])}

C2_FirstMatchSelected ==
    /\ examined = [i \in 1..Len(examined) |-> i - 1]
    /\ Len(examined) <= Len(btrk)
    /\ trigger_exist =>
        /\ trigger_pos \in TrackRows
        /\ Qualifies(trigger_pos)
        /\ \A q \in TrackRows : q < trigger_pos => ~Qualifies(q)
        /\ Len(examined) = trigger_pos + 1
        /\ trigger_pindex = RowPindex(trigger_pos)

\* Rows [A(invalid), B(electron), C(electron)]: B is selected, C was not
\* examined.
C2_Witness ==
    /\ EventDone
    /\ Len(btrk) = 3
    /\ RowPindex(0) >= Len(bpart)
    /\ Qualifies(1)
    /\ Qualifies(2)
    /\ trigger_exist
    /\ trigger_pos = 1
    /\ examined = <<0, 1>>

\* C3: an event whose track rows hold no trigger electron (no valid
\* track, an empty Particle or Track bank, only non-electrons) appends no
\* record and leaves the three counters as they were when it was read.
C3_NoTriggerNoRecords ==
    (/\ pc \in {"event", "done"}
     /\ event >= 1
     /\ ret # 1
     /\ ~(\E p \in TrackRows : Qualifies(p)))
    => /\ Len(tree_out) = ev_start.n
       /\ trigger_counter = ev_start.trigger
       /\ pionp_counter = ev_start.pionp
       /\ pionm_counter = ev_start.pionm

\* After an event with records, an event with a valid pion track and no
\* electron has been processed: nothing was appended, the counters kept.
C3_Witness ==
    /\ EventDone
    /\ event = 2
    /\ ev_start.n >= 2
    /\ ev_start.trigger = 1
    /\ ev_start.pionp = 1
    /\ \E p \in TrackRows : Accepted(p) /\ bpart[RowPindex(p) + 1].pid = 211
    /\ Len(tree_out) = ev_start.n
    /\ trigger_counter = 1

\* Rows other than the trigger row that are valid and pass the cut, in
\* stored order.
OtherAccepted ==
    SelectSeq([i \in 1..Len(btrk) |-> i - 1],
              LAMBDA p : p # trigger_pos /\ Accepted(p))

\* C4: at the end of an event with a trigger at row t, the records of the
\* event are the trigger record followed by exactly one record for every
\* other valid, cut-passing row, in stored order: 1 + (number of such
\* rows) records, none for row t in the second loop.
C4_OthersEmittedOnce ==
    (EventDone /\ trigger_exist) =>
        /\ Len(EventRecords) = 1 + Len(OtherAccepted)
        /\ EventRecords[1].p.row = trigger_pos
        /\ \A i \in 1..Len(OtherAccepted) :
            EventRecords[i + 1].p.row = OtherAccepted[i]

\* Trigger at row 1; row 0 is valid and stored before it, row 2 carries
\* the pindex of the trigger: both have their record.
C4_Witness ==
    /\ EventDone
    /\ trigger_exist
    /\ trigger_pos = 1
    /\ Len(btrk) = 3
    /\ Accepted(0)
    /\ RowPindex(2) = trigger_pindex
    /\ Len(EventRecords) = 3
    /\ EventRecords[2].p.row = 0
    /\ EventRecords[3].p.row = 2

----------------------------------------------------------------------------
(* Properties of the detector aggregators.                                 *)

\* FTOF hits of a particle in a layer, calorimeter hits in a layer.
SciHits(pindex, layer) ==
    {i \in RowsOf(bsci, pindex) :
        bsci[i].detector = FTOF_ID /\ bsci[i].layer = layer}
CalHits(pindex, layer) ==
    {i \in RowsOf(bcal, pindex) : bcal[i].layer = layer}
\* The times a precedence level offers: levels 1..3 are FTOF1B, FTOF1A,
\* FTOF2, levels 4..6 are PCAL, ECIN, ECOU.
LevelTimes(pindex, level) ==
    IF level = 1 THEN {bsci[i].time : i \in SciHits(pindex, FTOF1B_LYR)}
    ELSE IF level = 2 THEN {bsci[i].time : i \in SciHits(pindex, FTOF1A_LYR)}
    ELSE IF level = 3 THEN {bsci[i].time : i \in SciHits(pindex, FTOF2_LYR)}
    ELSE IF level = 4 THEN {bcal[i].time : i \in CalHits(pindex, PCAL_LYR)}
    ELSE IF level = 5 THEN {bcal[i].time : i \in CalHits(pindex, ECIN_LYR)}
    ELSE {bcal[i].time : i \in CalHits(pindex, ECOU_LYR)}
Levels == 1..6
NoTiming(pindex) == \A l \in Levels : LevelTimes(pindex, l) = {}
TofCalled == pc = "agg_done" /\ agg.fn = "get_tof"

\* C5: get_tof returns the time of a hit of the first level, in the order
\* FTOF1B, FTOF1A, FTOF2, PCAL, ECIN, ECOU, that has a hit of the particle,
\* whatever the order of the rows in the two banks; scintillator rows of
\* another detector than FTOF are no hits.
C5_TofPrecedence ==
    TofCalled =>
        \A l \in Levels :
            (/\ LevelTimes(agg.pindex, l) # {}
             /\ \A k \in Levels : k < l => LevelTimes(agg.pindex, k) = {})
            => agg.tof \in LevelTimes(agg.pindex, l)

\* An FTOF2 row stored before an FTOF1A row of the same particle with
\* another time, a PCAL row present as well: the FTOF1A time is returned.
C5_Witness ==
    /\ TofCalled
    /\ Len(bsci) = 2
    /\ bsci[1].pindex = agg.pindex /\ bsci[1].layer = FTOF2_LYR
    /\ bsci[1].detector = FTOF_ID
    /\ bsci[2].pindex = agg.pindex /\ bsci[2].layer = FTOF1A_LYR
    /\ bsci[2].time # bsci[1].time
    /\ CalHits(agg.pindex, PCAL_LYR) # {}
    /\ agg.tof = bsci[2].time

\* Records of the event for track row p.
RecordsOfRow(p) == {i \in DOMAIN EventRecords : EventRecords[i].p.row = p}

\* C6: with no FTOF row and no calorimeter row of the particle, get_tof
\* returns INFINITY and leaves rge_errno alone; run() appends the record
\* of such a particle with tof = INFINITY, it neither aborts nor passes
\* over the particle.
C6_NoTimingSentinel ==
    /\ (TofCalled /\ NoTiming(agg.pindex)) =>
        agg.tof = INFINITY /\ rge_errno = "RGEERR_UNDEFINED"
    /\ (EventDone /\ trigger_exist) =>
        \A p \in TrackRows :
            (Accepted(p) /\ NoTiming(RowPindex(p))) =>
                /\ RecordsOfRow(p) # {}
                /\ \A i \in RecordsOfRow(p) : EventRecords[i].tof = INFINITY
                /\ rge_errno = "RGEERR_UNDEFINED"
                /\ ret = NotReturned

\* An event with a trigger and a pion without any scintillator or
\* calorimeter row: the pion's record carries INFINITY.
C6_Witness ==
    /\ EventDone
    /\ trigger_exist
    /\ \E p \in TrackRows :
        /\ p # trigger_pos
        /\ Accepted(p)
        /\ NoTiming(RowPindex(p))
        /\ \E i \in RecordsOfRow(p) :
            /\ EventRecords[i].tof = INFINITY
            /\ EventRecords[i].trigger_tof # INFINITY

EnergyCalled == pc = "agg_done" /\ agg.fn = "get_deposited_energy"

Aggregates ==
    /\ pc \in {"trigger", "others"}
    /\ pos < Len(btrk)
    /\ Accepted(pos)
    /\ pc = "others" => ~(trigger_pindex = RowPindex(pos) /\ trigger_pos = pos)
\* run() returns 1 at once with the error e: nothing is appended, counted
\* or written, no row or event is processed after.
ReturnsAtOnce(e) ==
    /\ pc' = "done"
    /\ ret' = 1
    /\ rge_errno' = e
    /\ UNCHANGED <<tree_out, counters, file_out, event, pos>>
Returned == [][pc # "done"]_vars

\* C8: a calorimeter row of the targeted particle with a layer other than
\* 1, 4, 7 makes get_deposited_energy set rge_errno to
\* RGEERR_INVALIDCALLAYER and return 1, and run() then returns 1 at once:
\* no further row or event is processed.
C8_InvalidCalLayerFatal ==
    /\ [](EnergyCalled =>
            /\ agg.en.err = 1 <=> BadCalLayer(agg.pindex)
            /\ BadCalLayer(agg.pindex) =>
                rge_errno = "RGEERR_INVALIDCALLAYER")
    /\ [][(Aggregates /\ BadCalLayer(RowPindex(pos)))
            => ReturnsAtOnce("RGEERR_INVALIDCALLAYER")]_vars
    /\ Returned

\* run() has returned 1 with RGEERR_INVALIDCALLAYER on the first of two
\* track rows, whose particle has a row of layer 9.
C8_Witness ==
    /\ pc = "done"
    /\ ret = 1
    /\ rge_errno = "RGEERR_INVALIDCALLAYER"
    /\ Len(btrk) >= 2
    /\ pos = 0
    /\ BadCalLayer(RowPindex(0))
    /\ event = 0

NpheCalled == pc = "agg_done" /\ agg.fn = "count_photoelectrons"

\* C9: count_photoelectrons returns for the particle the sums of nphe of
\* its Cherenkov rows of detectors HTCC and LTCC, counted from zero; a row
\* of the particle with another detector id makes it set rge_errno to
\* RGEERR_INVALIDCHERENKOVID and return 1, and run() then returns 1 at
\* once.
C9_PhotoelectronSums ==
    /\ [](NpheCalled =>
            /\ agg.ph.err = 1 <=> BadChkvId(agg.pindex)
            /\ BadChkvId(agg.pindex) =>
                rge_errno = "RGEERR_INVALIDCHERENKOVID"
            /\ ~BadChkvId(agg.pindex) =>
                /\ agg.ph.HTCC = DetectorNphe(agg.pindex, HTCC_ID)
                /\ agg.ph.LTCC = DetectorNphe(agg.pindex, LTCC_ID)
                /\ rge_errno = "RGEERR_UNDEFINED")
    /\ [][(/\ Aggregates
           /\ ~BadCalLayer(RowPindex(pos))
           /\ BadChkvId(RowPindex(pos)))
            => ReturnsAtOnce("RGEERR_INVALIDCHERENKOVID")]_vars

\* run() has returned 1 with RGEERR_INVALIDCHERENKOVID in the loop over
\* the other particles, on a row whose particle has a Cherenkov row of
\* detector 99; the trigger record is in the tree.
C9_Witness ==
    /\ pc = "done"
    /\ ret = 1
    /\ rge_errno = "RGEERR_INVALIDCHERENKOVID"
    /\ trigger_exist
    /\ pos # trigger_pos
    /\ BadChkvId(RowPindex(pos))
    /\ Len(tree_out) = 1

\* C10: when run() returns 1 on a fatal error the output file has been
\* neither created nor written, whatever records the tree holds from
\* earlier events and from the trigger of the failing event, and rge_errno
\* is not RGEERR_NOERR; the file exists only after a return of 0 and then
\* holds the whole tree.
C10_NoOutputOnFatal ==
    /\ ret = 1 =>
        /\ pc = "done"
        /\ ~file_out.exists
        /\ file_out.rows = <<>>
        /\ rge_errno \notin {"RGEERR_NOERR", "RGEERR_UNDEFINED"}
    /\ file_out.exists =>
        /\ ret = 0
        /\ rge_errno = "RGEERR_NOERR"
        /\ file_out.rows = tree_out

\* run() has returned 1 in the second loop of the second event: the tree
\* holds records of the first event and the trigger record of the second,
\* and there is no file.
C10_Witness ==
    /\ ret = 1
    /\ event = 1
    /\ ev_start.n >= 1
    /\ Len(tree_out) > ev_start.n
    /\ trigger_exist
    /\ ~file_out.exists

----------------------------------------------------------------------------
(* The whole program (SpecMain).                                           *)

InLoop == pc \in {"event", "trigger", "check", "others"}
\* run() has returned 0: the event loop ran to its end.
Completed == ret = 0
\* The event indices 0 .. n - 1 in increasing order.
Indices(n) == [i \in 1..n |-> i - 1]

\* C11: the number of events is fixed before the first event: the entries
\* of the tree if main's n_events is -1 or larger than them, main's
\* n_events otherwise; it does not change during the loop; the loop body
\* runs on the indices 0, 1, ... in turn, and on exactly 0 .. n_events-1
\* when run() completes.
C11_EventCountFixed ==
    /\ []((InLoop \/ Completed) =>
            /\ (proc.n_events = 0 - 1 \/ proc.n_events > proc.entries)
                    => n_events = proc.entries
            /\ ~(proc.n_events = 0 - 1 \/ proc.n_events > proc.entries)
                    => n_events = proc.n_events
            /\ Len(visited) <= n_events
            /\ visited = Indices(Len(visited)))
    /\ [](Completed => visited = Indices(n_events))
    /\ [][InLoop => n_events' = n_events]_vars

\* make_ntuples -n 3 on a tree of two entries has exited after run()
\* completed: the body ran on the events 0 and 1.
C11_Witness ==
    /\ pc = "exited"
    /\ Completed
    /\ proc.n_events = 3
    /\ proc.entries = 2
    /\ visited = <<0, 1>>

\* Record i of tree_out is the first one of its event.
FirstOfEvent(i) ==
    \A j \in 1..(i - 1) : tree_out[j].event # tree_out[i].event
\* tree_out grew by one record, of the event being processed, at its end.
AppendsOne ==
    /\ Len(tree_out') = Len(tree_out) + 1
    /\ SubSeq(tree_out', 1, Len(tree_out)) = tree_out
    /\ tree_out'[Len(tree_out')].event = event

\* C12: records are appended to the output in input order: the records of
\* an event come before those of every later event; within an event the
\* trigger's record is first and the records of the other particles follow
\* by increasing track row.
C12_InputOrder ==
    /\ [](\A i, j \in DOMAIN tree_out :
            /\ FirstOfEvent(i) => TriggerFlagged(tree_out[i])
            /\ i < j =>
                /\ tree_out[i].event <= tree_out[j].event
                /\ tree_out[i].event = tree_out[j].event =>
                    /\ ~TriggerFlagged(tree_out[j])
                    /\ ~FirstOfEvent(i) =>
                        tree_out[i].p.row < tree_out[j].p.row)
    /\ [][tree_out' = tree_out \/ AppendsOne]_vars

\* Two events, each with the electron on track row 1 between two rows of
\* the pion: the records are rows 1, 0, 2 of event 0, then of event 1.
C12_Witness ==
    /\ Len(tree_out) = 6
    /\ [i \in 1..6 |-> tree_out[i].event] = <<0, 0, 0, 1, 1, 1>>
    /\ [i \in 1..6 |-> tree_out[i].p.row] = <<1, 0, 2, 1, 0, 2>>

----------------------------------------------------------------------------
(* The bank container (SpecBank).                                          *)

Populated == pc = "bank" /\ agg # NoAgg

----------------------------------------------------------------------------
(* main() and the prelude of run() (SpecMain).                             *)

\* run() has got to its check of the FMT::Tracks bank (line 421): it was
\* called, the sampling fraction was obtained and the input file opened.
PastFmtCheck ==
    /\ pc \notin {"main", "norun", "run", "err_call", "err_done"}
    /\ proc.ran
    /\ proc.sf = "ok"
    /\ proc.file # "bad"

\* C14: with fmt_nlayers other than 0, run() on a file without the
\* FMT::Tracks bank returns 1 with RGEERR_NOFMTBANK before any event, and
\* run() on a file with the bank does not raise RGEERR_NOFMTBANK.
C14_FmtBankRequired ==
    (PastFmtCheck /\ proc.fmt_nlayers # 0) =>
        /\ ~proc.has_fmt =>
            /\ rge_errno = "RGEERR_NOFMTBANK"
            /\ ret = 1
            /\ visited = <<>>
        /\ proc.has_fmt => rge_errno # "RGEERR_NOFMTBANK"

\* The process, or a direct call of rge_print_usage, has its exit code.
HasExitCode == pc \in {"exited", "err_done"}
\* C15: the exit code is 0 exactly when rge_errno is RGEERR_NOERR, which in
\* a run of main only a run() that went through all its events leaves; it
\* is 1 for RGEERR_USAGE and for the error numbers of ERRMAP,
\* RGEERR_UNDEFINED among them, and 2 for a number ERRMAP lacks; the usage
\* message is printed exactly with exit code 1; run() is called only after
\* handle_args returned 0 with rge_errno still RGEERR_UNDEFINED.
C15_ExitCode ==
    /\ [](HasExitCode =>
            /\ proc.exit \in {0, 1, 2}
            /\ proc.exit = 0 <=> rge_errno = "RGEERR_NOERR"
            /\ rge_errno \in ERRMAP \ {"RGEERR_NOERR"} => proc.exit = 1
            /\ rge_errno = RGEERR_UNLISTED => proc.exit = 2
            /\ proc.usage <=> proc.exit = 1)
    /\ []((pc = "exited" /\ proc.exit = 0) =>
            /\ Completed
            /\ event = n_events
            /\ file_out.exists)
    /\ []((InLoop \/ pc \in {"run", "done", "crashed"}
                   \/ ret # NotReturned) =>
            proc.ran /\ proc.err = 0)
    /\ [][pc' = "run" =>
            /\ pc = "main"
            /\ proc'.err = 0
            /\ rge_errno' = "RGEERR_UNDEFINED"]_vars
    /\ [](pc = "norun" => ~proc.ran /\ ret = NotReturned)

\* make_ntuples -h has exited with code 1 and the usage message, without
\* calling run().
C15_Witness ==
    /\ pc = "exited"
    /\ rge_errno = "RGEERR_USAGE"
    /\ proc.exit = 1
    /\ proc.usage
    /\ ~proc.ran

----------------------------------------------------------------------------
(* The FMT geometry cut and the rows that are skipped (SpecCut).           *)

Valid(p) == RowPindex(p) < Len(bpart)
Theta(p) == bpart[RowPindex(p) + 1].theta
Vz(p) == bpart[RowPindex(p) + 1].vz
\* The polar angle of the candidate of row p lies outside its window.
OutsideWindow(p) ==
    Theta(p) < theta_min(Vz(p)) \/ Theta(p) > theta_max(Vz(p))
HasRecord(p) == \E i \in DOMAIN EventRecords : EventRecords[i].p.row = p

\* C16: with the cut enabled a valid candidate is rejected exactly when its
\* theta is below theta_min or above theta_max of its vz: a rejected one
\* has no record and is not the trigger; one inside the window or on one
\* of its bounds is the trigger if it is the first electron that is not
\* rejected, and has its record once the event has a trigger.  With the
\* cut disabled no candidate is rejected.
C16_GeometryCut ==
    EventDone =>
        \A p \in TrackRows : Valid(p) =>
            IF fmt_cut /\ OutsideWindow(p)
            THEN /\ ~HasRecord(p)
                 /\ trigger_exist => trigger_pos # p
            ELSE /\ bpart[RowPindex(p) + 1].pid = 11 => trigger_exist
                 /\ trigger_exist => HasRecord(p)

\* With the cut enabled: the electron of vz = 0 sits on the lower bound and
\* is the trigger; the pion of vz = -10 has theta 500, inside the window
\* of vz = 0 and outside its own, and has no record.
C16_Witness ==
    /\ EventDone
    /\ fmt_cut
    /\ Len(btrk) = 2
    /\ trigger_exist
    /\ Theta(trigger_pos) = THETA_MIN_VZ0
    /\ \E p \in TrackRows :
        /\ Valid(p)
        /\ Vz(p) = 0 - 10
        /\ Theta(p) = 500
        /\ ~HasRecord(p)
    /\ Len(EventRecords) = 1

----------------------------------------------------------------------------
(* The diagnostic counters (SpecRun).                                      *)

\* run() is between two events, or has returned after the last one.
BetweenEvents == pc = "event" \/ (pc = "done" /\ ret = 0)
TriggerRecords == {i \in DOMAIN tree_out : TriggerFlagged(tree_out[i])}
OtherRecords(pid) ==
    {i \in DOMAIN tree_out :
        ~TriggerFlagged(tree_out[i]) /\ tree_out[i].p.pid = pid}
EventsWithRecords == {tree_out[i].event : i \in DOMAIN tree_out}

AtRow == pc \in {"trigger", "others"} /\ pos < Len(btrk)
\* The candidate of row p is invalid or fails the geometry cut.
Unfit(p) == ~Valid(p) \/ (fmt_cut /\ OutsideWindow(p))

----------------------------------------------------------------------------
(* The prompt for a string of a list (SpecIo).                             *)

\* C19: catch_string returns only an index i of 0 .. size-1 with list[i]
\* equal to the string read last; a string that is not in the list makes
\* it ask again instead of returning.
C19_CatchString ==
    pc = "catch_done" =>
        /\ agg.ret \in 0..(Len(agg.list) - 1)
        /\ agg.list[agg.ret + 1] = agg.str

----------------------------------------------------------------------------
(* The event counts of acc_corr (SpecAcc).                                 *)

\* The entries read so far by the loop of count_entries.
EntriesRead == 1..agg.evn
AccBinOf(e) == EntryIdx(e, agg.in_deg)
\* The entries of PID pid read so far that pass the DIS cuts and fall in
\* bin b.
Selected(pid, b) ==
    {i \in EntriesRead :
        /\ agg.tree[i].pid = pid
        /\ ~DisContinue(agg.tree[i], agg.simul)
        /\ AccBinOf(agg.tree[i]) = b}

\* C20: count_entries called for a PID counts the entries of that PID
\* only: the count of a bin is the number of entries of the PID that pass
\* the DIS cuts and fall in the bin; an entry of another PID adds to no
\* bin.
C20_CountsSelectedPid ==
    pc \in {"count", "count_done"} =>
        \A b \in AccBins :
            agg.evn_cnt[b] = Cardinality(Selected(agg.pid, b))

----------------------------------------------------------------------------
(* The output file of acc_corr (SpecAccRun).                               *)

AccReturned == pc = "acc_done"
\* C21: when the output file exists, run() returns 1 with
\* ERR_OUTFILEEXISTS and the file is neither opened nor changed; the file
\* is opened for writing only when it did not exist.
C21_OutFileKept ==
    /\ agg.fopened => agg.fs0 = AccAbsent
    /\ agg.fs0 # AccAbsent => agg.out_file = agg.fs0
    /\ AccReturned /\ agg.fs0 # AccAbsent
       /\ agg.thrown_file = "ok" /\ agg.simul_file = "ok" =>
           /\ rge_errno = "ERR_OUTFILEEXISTS"
           /\ ret = 1
\* run() returned in front of an old file, both input files being good.
C21_Witness ==
    /\ AccReturned
    /\ agg.fs0 = AccOldFile
    /\ rge_errno = "ERR_OUTFILEEXISTS"
    /\ agg.out_file = AccOldFile

----------------------------------------------------------------------------
(* The sampling fraction row of a track (SpecSf).                          *)

\* C22: for a track row of sector 1 .. 6 the row of
\* sampling_fraction_params handed to rge_set_pid lies inside the table,
\* and it is the calibration of the sector of the track.
C22_SfRowOfSector ==
    \A i \in 1..Len(rowlog) :
        rowlog[i].sector \in 1..RGE_NSECTORS =>
            /\ rowlog[i].sf_row \in 0..(RGE_NSECTORS - 1)
            /\ sampling_fraction_params[rowlog[i].sf_row].sector
                   = rowlog[i].sector

----------------------------------------------------------------------------
(* The reads of the Particle bank (SpecCut).                               *)

\* The track rows of the event that got as far as the reads of lines
\* 528-535 or 603-610.
RowsRead == {rowlog[i].pos : i \in DOMAIN rowlog}

\* C23: status and pid are read from the Particle bank at a pindex below
\* the number of its rows only, in both loops; a track row whose pindex
\* has no Particle row is passed over before these reads and gets no
\* record.
C23_ParticleReadsInRange ==
    /\ \A i \in DOMAIN rowlog : rowlog[i].pindex < rowlog[i].nrows
    /\ \A p \in TrackRows : ~Valid(p) => p \notin RowsRead /\ ~HasRecord(p)
\* An event is done whose first track row has no Particle row and whose
\* second one is the trigger: both loops passed over the first.
C23_Witness ==
    /\ EventDone
    /\ Len(btrk) = 2
    /\ ~Valid(0)
    /\ trigger_exist /\ trigger_pos = 1
    /\ examined = <<0, 1>>
    /\ RowsRead = {1}
    /\ Len(EventRecords) = 1

----------------------------------------------------------------------------
(* The trigger reference of the other particles (SpecRun).                 *)

\* The records of event ev, in the order they were appended.
RecordsOf(ev) == {i \in DOMAIN tree_out : tree_out[i].event = ev}
FirstRecordOf(ev) == CHOOSE i \in RecordsOf(ev) : \A j \in RecordsOf(ev) : i <= j

\* C24: every record of a non-trigger particle carries the trigger
\* particle and the trigger time of flight of its own event, those of the
\* row at trigger_pos; while the second loop runs, part_trigger and
\* trigger_tof are the particle and the time of flight of the trigger
\* record of the event.
C24_TriggerOfSameEvent ==
    /\ \A i \in DOMAIN tree_out :
        LET t == tree_out[FirstRecordOf(tree_out[i].event)] IN
            /\ TriggerFlagged(t)
            /\ tree_out[i].e = t.p
            /\ tree_out[i].trigger_tof = t.tof
    /\ pc = "others" =>
        /\ EventRecords # <<>>
        /\ part_trigger = EventRecords[1].p
        /\ part_trigger.row = trigger_pos
        /\ part_trigger.is_trigger
        /\ trigger_tof = EventRecords[1].tof
        /\ trigger_tof = get_tof(bsci, bcal, RowPindex(trigger_pos))
        /\ EventRecords[1].event = event
\* Two events are done with different triggers, each with a record of
\* another particle; in the second one a candidate was scanned before the
\* trigger.
C24_Witness ==
    /\ pc = "event" /\ event = 2
    /\ trigger_pos = 1
    /\ \E i \in RecordsOf(0), j \in RecordsOf(1) :
        /\ ~TriggerFlagged(tree_out[i]) /\ ~TriggerFlagged(tree_out[j])
        /\ tree_out[i].e # tree_out[j].e
        /\ tree_out[i].trigger_tof # tree_out[j].trigger_tof
        /\ tree_out[j].e = part_trigger

----------------------------------------------------------------------------
(* The banks read per event (SpecMain).                                    *)

\* The loop body has read its banks and not yet finished the event.
InEvent == pc \in {"trigger", "check", "others"}

\* C25: with fmt_nlayers = 0 the bank FMT::Tracks is never read: it keeps
\* the content rge_hipobank_init gave it for the whole run; the five other
\* banks are read for an event before a row of them is used for it.
C25_FmtBankUntouched ==
    /\ (proc # NoProc /\ proc.ran /\ fmt_nlayers = 0) =>
        /\ bfmt = <<>>
        /\ loaded["bfmt"] = 0 - 1
    /\ InEvent =>
        \A b \in BankNames \ {"bfmt"} : loaded[b] = event
\* The second event of a run without the layer requirement is being
\* processed, the file holding the bank FMT::Tracks.
C25_Witness ==
    /\ proc # NoProc
    /\ proc.ran /\ proc.has_fmt /\ fmt_nlayers = 0
    /\ pc = "others" /\ event = 1
    /\ loaded["btrk"] = 1
    /\ bfmt = <<>>

----------------------------------------------------------------------------
(* The hit get_tof takes inside a level (SpecTof).                         *)

\* The rows of the hits of a level in their bank, and the time of the
\* first of them in stored order.
LevelRows(pindex, level) ==
    IF level = 1 THEN SciHits(pindex, FTOF1B_LYR)
    ELSE IF level = 2 THEN SciHits(pindex, FTOF1A_LYR)
    ELSE IF level = 3 THEN SciHits(pindex, FTOF2_LYR)
    ELSE IF level = 4 THEN CalHits(pindex, PCAL_LYR)
    ELSE IF level = 5 THEN CalHits(pindex, ECIN_LYR)
    ELSE CalHits(pindex, ECOU_LYR)
FirstHitTime(pindex, level) ==
    LET first == CHOOSE i \in LevelRows(pindex, level) :
                     \A j \in LevelRows(pindex, level) : i <= j
    IN IF level <= 3 THEN bsci[first].time ELSE bcal[first].time

\* C26: of several hits of the particle in the best level that has any,
\* get_tof returns the time of the first in stored order, for each of the
\* six levels and whatever hits of lower levels lie before or between
\* them.
C26_FirstHitOfLevel ==
    TofCalled =>
        \A l \in Levels :
            (/\ LevelRows(agg.pindex, l) # {}
             /\ \A k \in Levels : k < l => LevelRows(agg.pindex, k) = {})
            => agg.tof = FirstHitTime(agg.pindex, l)
\* Two FTOF1A hits of the particle with an FTOF2 hit between them: the
\* time is the one of the first row.
C26_Witness ==
    /\ TofCalled
    /\ Len(bsci) = 3
    /\ \A i \in 1..3 : bsci[i].pindex = agg.pindex
    /\ bsci[1].layer = FTOF1A_LYR /\ bsci[2].layer = FTOF2_LYR
    /\ bsci[3].layer = FTOF1A_LYR
    /\ agg.tof = bsci[1].time /\ agg.tof # bsci[3].time

----------------------------------------------------------------------------
(* Rows of an unknown layer or detector of a particle that is not          *)
(* aggregated (SpecCut).                                                   *)

\* run() returned 1 on an unknown calorimeter layer or Cherenkov detector.
AbortedOnBadRow ==
    /\ pc = "done"
    /\ ret = 1
    /\ rge_errno \in {"RGEERR_INVALIDCALLAYER", "RGEERR_INVALIDCHERENKOVID"}
\* A bank of the event holds a row of an unknown layer or detector.
HasBadRow ==
    \/ \E i \in DOMAIN bcal : bcal[i].layer \notin CalLayers
    \/ \E i \in DOMAIN bchkv : bchkv[i].detector \notin CherenkovIds
\* The track row is valid, passes the cut, and a row of an unknown layer
\* or detector carries its pindex.
CarriesBadRow(p) ==
    Accepted(p) /\ (BadCalLayer(RowPindex(p)) \/ BadChkvId(RowPindex(p)))

\* C27: a calorimeter or Cherenkov row of an unknown layer or detector
\* raises an error only when a valid, cut-passing track row that is
\* scanned carries its pindex: run() returns on such a row at that track
\* row, which is a row of the search up to the trigger or a row of the
\* second loop other than the trigger; an event that holds such a row and
\* no such track is processed to its end with no error.
C27_ForeignBadRowIgnored ==
    /\ AbortedOnBadRow =>
        /\ pos \in TrackRows
        /\ CarriesBadRow(pos)
        /\ rge_errno = "RGEERR_INVALIDCALLAYER" => BadCalLayer(RowPindex(pos))
        /\ rge_errno = "RGEERR_INVALIDCHERENKOVID" =>
               BadChkvId(RowPindex(pos)) /\ ~BadCalLayer(RowPindex(pos))
        /\ ~trigger_exist => \A q \in 0..(pos - 1) : ~Qualifies(q)
        /\ trigger_exist =>
               ~(trigger_pindex = RowPindex(pos) /\ trigger_pos = pos)
    /\ (InLoop /\ \A p \in TrackRows : ~CarriesBadRow(p)) =>
        /\ ret = NotReturned
        /\ rge_errno = "RGEERR_UNDEFINED"
    /\ (EventDone /\ trigger_exist) =>
        \A p \in TrackRows : Accepted(p) => HasRecord(p)
\* An event with a trigger is done; it held a calorimeter row of an
\* unknown layer of the pion, whose track row was scanned and rejected by
\* the cut.
C27_Witness ==
    /\ EventDone
    /\ trigger_exist
    /\ HasBadRow
    /\ Len(btrk) = 2
    /\ \E p \in TrackRows :
        /\ Valid(p)
        /\ ~Accepted(p)
        /\ BadCalLayer(RowPindex(p))
        /\ p < trigger_pos
    /\ rge_errno = "RGEERR_UNDEFINED"


\* The entry count_entries is at, and whether one of its five binning
\* values is 0.
AtEntry == pc = "count" /\ agg.evn < Len(agg.tree)
HasZeroValue(e) == \E s_i \in 1..5 : e.s_bin[s_i] = 0

\* C28: count_entries does not count an entry in which one of Q2, nu, zh,
\* Pt2 and phiPQ equals 0: the turn of the loop over such an entry leaves
\* every bin counter as it was.
C28_ZeroEntriesSkipped ==
    [][(AtEntry /\ HasZeroValue(agg.tree[agg.evn + 1]))
        => agg'.evn_cnt = agg.evn_cnt]_vars


\* Lines 44-45: the total number of bins.
tnbins == AccNbins[1] * AccNbins[2] * AccNbins[3] * AccNbins[4] * AccNbins[5]
\* The counters before the first entry; what a turn of the loop does to
\* them; what a finished call has written.
CountersStartAtZero ==
    (pc = "count" /\ agg.evn = 0) => \A b \in AccBins : agg.evn_cnt[b] = 0
AtMostOneBin ==
    AtEntry =>
        LET e == agg.tree[agg.evn + 1] IN
        \/ agg'.evn_cnt = agg.evn_cnt
        \/ /\ \E b \in AccBins :
                agg'.evn_cnt = [agg.evn_cnt EXCEPT ![b] = @ + 1]
           /\ \A bi \in 1..5 : EntryIdx(e, agg.in_deg)[bi] >= 0
           /\ ~DisContinue(e, agg.simul)
CountsWritten ==
    pc = "count_done" =>
        /\ Len(agg.out) = tnbins
        /\ agg.out[1] + agg.out[2] <= Len(agg.tree)

\* C29: every bin counter of count_entries starts at 0; an entry
\* increments at most one counter, and only when its five values lie
\* inside the edges and it passes the DIS cuts; a call writes exactly
\* nbins[0]*...*nbins[4] counts, whose sum is at most the number of
\* entries of the tree.
C29_CountsWellFormed ==
    /\ []CountersStartAtZero
    /\ [][AtMostOneBin]_vars
    /\ []CountsWritten


\* The run number written with exactly six digits, zeros first.
SixDigits(n) ==
    [i \in 1..6 |->
        Digit((n \div <<100000, 10000, 1000, 100, 10, 1>>[i]) % 10)]
NameMade == pc \in {"name_made", "name_done"} /\ ~agg.use_simul
NameAsClaimed ==
    NameMade => agg.out_filename
                    = RootIoDir \o SixDigits(agg.run_no) \o DotRoot
NameFits ==
    NameMade => Len(agg.out_filename) + 1 <= agg.size

\* C30: in the data branch of main, for a run number in 0..999999, the
\* output file name is "../root_io/", the run number padded with zeros to
\* six digits and ".root", and the name with its terminating NUL fits in
\* the buffer allocated for it.
C30_NameFitsBuffer == NameAsClaimed /\ NameFits

====
